---------------------------- MODULE Spec2Model ----------------------------
(***************************************************************************)
(* The room / turn state machine of the Shithead server                    *)
(* (src/server/index.js).  Every socket.io handler runs to completion on   *)
(* Node's single thread, so each handler is one atomic action.  The        *)
(* handlers are written as operators from the registry and the request to  *)
(* the new registry and the reply handed to the callback; the actions      *)
(* apply them.  A handler's successive writes are successive operators,    *)
(* each taking the room as the previous one left it.                       *)
(*                                                                         *)
(* A card {r, s, id} is modelled by its position 1..52 in the unshuffled   *)
(* deck built by makeDeck (suit-major, rank-minor); the position stands    *)
(* for the unique id, and CardRank / CardSuit recover r and s.  Socket ids *)
(* are 1, 2, ... in connection order, 0 stands for null.                   *)
(***************************************************************************)
EXTENDS Integers, Sequences, FiniteSets, TLC

(* ------------------------------ bounds -------------------------------- *)

\* Sockets that ever connect in the exploration.
MaxSockets == 3
\* Room codes that makeRoomCode may hand out in the exploration.
MaxRooms == 1
\* State-changing events explored from an initial state.
MaxSteps == 8
\* Shuffle outcomes game:start may draw in the exploration.
MaxShuffles == 2
\* Largest card selection a play:cards request names in the exploration.
MaxSelect == 3
\* State-changing events explored from a state of a recorded behaviour.
MaxPlays == 2
\* Members of the largest lobby the recorded behaviours build.
MaxPlayers == 7

\* Cards of the longest pile, of any ranks, handed to the rule functions.
MaxShortPile == 3
\* Cards of the longest pile of 3s, 7s and 8s handed to the rule functions.
MaxDeepPile == 7

(* ------------------------- program constants -------------------------- *)

Null == 0
NameCap == 20
HandTarget == 3
DealFaceDown == 3
DealHand == 6
LockCount == 3

ranks == <<"A", "2", "3", "4", "5", "6", "7", "8", "9", "10", "J", "Q", "K">>
suits == <<"S", "H", "D", "C">>

NoRank == "null"
NoGame == [null |-> TRUE]

(* ------------------------------ helpers ------------------------------- *)

Range(s) == {s[i] : i \in 1..Len(s)}

Min(a, b) == IF a <= b THEN a ELSE b

\* Array.prototype.indexOf, 0-based, -1 when absent.
RECURSIVE IndexFrom(_, _, _)
IndexFrom(s, x, i) ==
  IF i > Len(s) THEN -1
  ELSE IF s[i] = x THEN i - 1
  ELSE IndexFrom(s, x, i + 1)

indexOf(s, x) == IndexFrom(s, x, 1)

\* A finite set of integers as the ascending sequence.
RECURSIVE SetToSeq(_)
SetToSeq(S) ==
  IF S = {} THEN <<>>
  ELSE LET m == CHOOSE x \in S : \A y \in S : x <= y
       IN <<m>> \o SetToSeq(S \ {m})

(* ------------------------------- cards -------------------------------- *)

CardRank(c) == ranks[((c - 1) % Len(ranks)) + 1]

CardSuit(c) == suits[((c - 1) \div Len(ranks)) + 1]

\* The deck before the shuffle: for each suit, for each rank.
UnshuffledDeck == [i \in 1..(Len(suits) * Len(ranks)) |-> i]

\* makeDeck: Fisher-Yates can produce every permutation; `order` is the
\* permutation it produced (order[i] = the unshuffled position of the card
\* that ends at position i).
makeDeck(order) == [i \in 1..Len(UnshuffledDeck) |-> UnshuffledDeck[order[i]]]

\* Number(r) for the numeral ranks.
Number(r) ==
  CASE r = "2" -> 2 [] r = "3" -> 3 [] r = "4" -> 4 [] r = "5" -> 5
    [] r = "6" -> 6 [] r = "7" -> 7 [] r = "8" -> 8 [] r = "9" -> 9
    [] r = "10" -> 10

rankValue(r) ==
  IF r = "A" THEN 14
  ELSE IF r = "K" THEN 13
  ELSE IF r = "Q" THEN 12
  ELSE IF r = "J" THEN 11
  ELSE Number(r)

isMagic(r) == r = "2" \/ r = "3" \/ r = "10"

RECURSIVE TopFrom(_, _)
TopFrom(pile, i) ==
  IF i < 1 THEN NoRank
  ELSE IF CardRank(pile[i]) # "3" THEN CardRank(pile[i])
  ELSE TopFrom(pile, i - 1)

\* pileEffectiveTopRank as it would be if it took the last card, 3 or not.
TopCardRank(pile) == IF Len(pile) = 0 THEN NoRank ELSE CardRank(pile[Len(pile)])

pileEffectiveTopRank(pile) == TopFrom(pile, Len(pile))

\* canPlayOnPile as it would be if a 7 on top were an ordinary card.
canPlayOnPileNoSeven(cardRank, pile) ==
  IF isMagic(cardRank) THEN TRUE
  ELSE LET top == pileEffectiveTopRank(pile)
       IN IF top = NoRank THEN TRUE
          ELSE IF cardRank = top THEN TRUE
          ELSE rankValue(cardRank) >= rankValue(top)

canPlayOnPile(cardRank, pile) ==
  IF isMagic(cardRank) THEN TRUE
  ELSE LET top == pileEffectiveTopRank(pile)
       IN IF top = NoRank THEN TRUE
          ELSE IF cardRank = top THEN TRUE
          ELSE IF top = "7" THEN rankValue(cardRank) < 7
          ELSE rankValue(cardRank) >= rankValue(top)

\* Non3From as it would be if the 3s were counted like any other card.
Non3FromCounting3(pile, i, non3) ==
  [k \in 1..(IF Len(pile) < 4 THEN Len(pile) ELSE 4) |-> CardRank(pile[Len(pile) + 1 - k])]

\* The loop of lastFourNon3Same: the ranks of the non-3 cards from the top
\* down, at most four of them.
RECURSIVE Non3From(_, _, _)
Non3From(pile, i, non3) ==
  IF i < 1 \/ Len(non3) >= 4 THEN non3
  ELSE IF CardRank(pile[i]) # "3"
       THEN Non3From(pile, i - 1, Append(non3, CardRank(pile[i])))
       ELSE Non3From(pile, i - 1, non3)

lastFourNon3Same(pile) ==
  LET non3 == Non3From(pile, Len(pile), <<>>)
  IN IF Len(non3) < 4 THEN FALSE
     ELSE \A i \in 1..Len(non3) : non3[i] = non3[1]

(* ---------------------------- turn / zones ---------------------------- *)

HasPlayerState(g, pid) == pid \in DOMAIN g.playersState

\* playerZoneToUse as it would be if it looked at the face-up cards before
\* the hand.
ZoneFaceUpFirst(room, pid) ==
  IF ~HasPlayerState(room.game, pid) THEN "hand"
  ELSE LET ps == room.game.playersState[pid]
       IN IF Len(room.game.deck) > 0 THEN "hand"
          ELSE IF Len(ps.faceUp) > 0 THEN "faceUp"
          ELSE IF Len(ps.hand) > 0 THEN "hand"
          ELSE "faceDown"

playerZoneToUse(room, pid) ==
  IF ~HasPlayerState(room.game, pid) THEN "hand"
  ELSE LET ps == room.game.playersState[pid]
       IN IF Len(room.game.deck) > 0 THEN "hand"
          ELSE IF Len(ps.hand) > 0 THEN "hand"
          ELSE IF Len(ps.faceUp) > 0 THEN "faceUp"
          ELSE "faceDown"

\* isPlayerOut as it would be if it looked at the hand only.
isPlayerOutHandOnly(ps) == Len(ps.hand) = 0

isPlayerOut(ps) == Len(ps.hand) = 0 /\ Len(ps.faceUp) = 0 /\ Len(ps.faceDown) = 0

\* room.players.map((p) => p.id)
PlayerIds(room) == [i \in 1..Len(room.players) |-> room.players[i].id]

\* g?.finished ?? [] as a set
FinishedSet(room) == IF room.game = NoGame THEN {} ELSE Range(room.game.finished)

\* ids.filter((id) => !finished.has(id))
ActiveIds(room) == SelectSeq(PlayerIds(room), LAMBDA id : id \notin FinishedSet(room))

\* The for loop of nextPlayerId: idx = (idx + 1) % active.length, steps times.
RECURSIVE StepIdx(_, _, _)
StepIdx(idx, steps, n) ==
  IF steps <= 0 THEN idx ELSE StepIdx((idx + 1) % n, steps - 1, n)

\* nextPlayerId from line 190 on, for a non-empty active list.
NextInActive(active, fromId, steps) ==
  active[StepIdx(IF indexOf(active, fromId) = -1 THEN 0 ELSE indexOf(active, fromId),
                 steps, Len(active)) + 1]

nextPlayerId(room, fromId, steps) ==
  IF Len(PlayerIds(room)) = 0 THEN Null
  ELSE IF Len(ActiveIds(room)) = 0 THEN Null
  ELSE NextInActive(ActiveIds(room), fromId, steps)

\* The first loop of ensureFinishAndMaybeEnd: room.players from position i on.
RECURSIVE RecordFinished(_, _, _)
RecordFinished(room, finished, i) ==
  IF i > Len(room.players) THEN finished
  ELSE LET pid == room.players[i].id
       IN IF HasPlayerState(room.game, pid)
             /\ isPlayerOut(room.game.playersState[pid])
             /\ pid \notin Range(finished)
          THEN RecordFinished(room, Append(finished, pid), i + 1)
          ELSE RecordFinished(room, finished, i + 1)

\* EndOrBump as it would be if the winner were the last player to finish.
EndWithLastFinished(room) ==
  IF Len(ActiveIds(room)) = 1 /\ Len(PlayerIds(room)) >= 2
  THEN [room EXCEPT
          !.phase = "ended",
          !.game.winnerId =
             IF Len(room.game.finished) > 0
             THEN room.game.finished[Len(room.game.finished)] ELSE Null,
          !.game.loserId = ActiveIds(room)[1],
          !.game.currentPlayerId =
             IF @ \in FinishedSet(room) THEN ActiveIds(room)[1] ELSE @]
  ELSE IF room.game.currentPlayerId \in FinishedSet(room)
       THEN [room EXCEPT !.game.currentPlayerId = nextPlayerId(room, @, 1)]
       ELSE room

\* EndOrBump as it would be if a finished player kept the turn while the
\* game goes on.
EndOrKeepTurn(room) ==
  IF Len(ActiveIds(room)) = 1 /\ Len(PlayerIds(room)) >= 2
  THEN [room EXCEPT
          !.phase = "ended",
          !.game.winnerId =
             IF Len(room.game.finished) > 0 THEN room.game.finished[1] ELSE Null,
          !.game.loserId = ActiveIds(room)[1],
          !.game.currentPlayerId =
             IF @ \in FinishedSet(room) THEN ActiveIds(room)[1] ELSE @]
  ELSE room

\* ensureFinishAndMaybeEnd, lines 214-232: room has the newly finished
\* players recorded.
EndOrBump(room) ==
  IF Len(ActiveIds(room)) = 1 /\ Len(PlayerIds(room)) >= 2
  THEN [room EXCEPT
          !.phase = "ended",
          !.game.winnerId =
             IF Len(room.game.finished) > 0 THEN room.game.finished[1] ELSE Null,
          !.game.loserId = ActiveIds(room)[1],
          !.game.currentPlayerId =
             IF @ \in FinishedSet(room) THEN ActiveIds(room)[1] ELSE @]
  ELSE IF room.game.currentPlayerId \in FinishedSet(room)
       THEN [room EXCEPT !.game.currentPlayerId = nextPlayerId(room, @, 1)]
       ELSE room

ensureFinishAndMaybeEnd(room) ==
  IF room.game = NoGame THEN room
  ELSE EndOrBump([room EXCEPT
                    !.game.finished = RecordFinished(room, room.game.finished, 1)])

\* DrawLoop as it would be if it stopped after one card.
DrawOnce(hand, deck) ==
  IF Len(hand) < HandTarget /\ Len(deck) > 0
  THEN [hand |-> Append(hand, Head(deck)), deck |-> Tail(deck)]
  ELSE [hand |-> hand, deck |-> deck]

\* The while loop of drawUpToThree on the hand and the deck.
RECURSIVE DrawLoop(_, _)
DrawLoop(hand, deck) ==
  IF Len(hand) < HandTarget /\ Len(deck) > 0
  THEN DrawLoop(Append(hand, Head(deck)), Tail(deck))
  ELSE [hand |-> hand, deck |-> deck]

drawUpToThree(room, pid) ==
  IF ~HasPlayerState(room.game, pid) THEN room
  ELSE IF Len(room.game.deck) <= 0 THEN room
  ELSE LET d == DrawLoop(room.game.playersState[pid].hand, room.game.deck)
       IN [room EXCEPT !.game.playersState[pid].hand = d.hand,
                       !.game.deck = d.deck]

removeCardsByIds(arr, ids) ==
  [removed |-> SelectSeq(arr, LAMBDA c : c \in Range(ids)),
   kept |-> SelectSeq(arr, LAMBDA c : c \notin Range(ids))]

(* ------------------------------ replies ------------------------------- *)

\* What a handler passes to its callback.
OkReply == [ok |-> TRUE, error |-> "", forcedPickup |-> FALSE, burned |-> FALSE]

ErrReply(msg) == [ok |-> FALSE, error |-> msg, forcedPickup |-> FALSE, burned |-> FALSE]

\* An event without a callback (connection, disconnect).
NoReply == [ok |-> TRUE, error |-> "none", forcedPickup |-> FALSE, burned |-> FALSE]

\* A handler that returns early leaves the room as it is.
Reject(room, msg) == [room |-> room, reply |-> ErrReply(msg)]

Accept(room, reply) == [room |-> room, reply |-> reply]

(* ------------------------------- names -------------------------------- *)

\* A name is the sequence of its characters.
RECURSIVE TrimLeft(_)
TrimLeft(s) == IF Len(s) > 0 /\ Head(s) = " " THEN TrimLeft(Tail(s)) ELSE s

RECURSIVE TrimRight(_)
TrimRight(s) ==
  IF Len(s) > 0 /\ s[Len(s)] = " " THEN TrimRight(SubSeq(s, 1, Len(s) - 1)) ELSE s

\* slice(0, 20)
Slice20(s) == SubSeq(s, 1, Min(Len(s), NameCap))

\* String(name || "").trim().slice(0, 20)
SafeName(name) == Slice20(TrimRight(TrimLeft(name)))

(* ---------------------- lobby and setup, one room --------------------- *)

RoomHas(rs, code) == code \in DOMAIN rs

IsMember(room, sid) == \E i \in 1..Len(room.players) : room.players[i].id = sid

\* room:create, lines 316-322: the new room.
NewRoom(code, sid, safeName) ==
  [code |-> code,
   hostSocketId |-> sid,
   players |-> <<[id |-> sid, name |-> safeName]>>,
   phase |-> "lobby",
   game |-> NoGame]

\* JoinRoom as it would be without the membership test.
JoinRoomAlways(room, sid, safeName) ==
  [room EXCEPT !.players = Append(@, [id |-> sid, name |-> safeName])]

\* room:join on the room found, lines 340-342.
JoinRoom(room, sid, safeName) ==
  IF ~IsMember(room, sid)
  THEN [room EXCEPT !.players = Append(@, [id |-> sid, name |-> safeName])]
  ELSE room

\* deck.splice(0, n): what is taken (all of the deck when fewer remain) and
\* what stays.
Splice0(deck, n) ==
  [taken |-> SubSeq(deck, 1, Min(n, Len(deck))),
   rest |-> SubSeq(deck, Min(n, Len(deck)) + 1, Len(deck))]

\* playersState[p.id] = {...}, lines 372-379.
WithPlayerState(playersState, p, faceDown, hand) ==
  (p.id :> [id |-> p.id, name |-> p.name, faceDown |-> faceDown,
            faceUp |-> <<>>, hand |-> hand, stage |-> "chooseFaceUp"])
  @@ playersState

\* The deal loop of game:start, lines 368-380, for the players from position
\* i on.
RECURSIVE DealLoop(_, _, _, _)
DealLoop(players, i, deck, playersState) ==
  IF i > Len(players) THEN [deck |-> deck, playersState |-> playersState]
  ELSE LET fd == Splice0(deck, DealFaceDown)
           hd == Splice0(Splice0(deck, DealFaceDown).rest, DealHand)
       IN DealLoop(players, i + 1, hd.rest,
                   WithPlayerState(playersState, players[i], fd.taken, hd.taken))

\* StartedRoom as it would be if the game went straight to playing.
StartedRoomPlaying(room, dealt) ==
  [room EXCEPT
     !.phase = "playing",
     !.game = [deck |-> dealt.deck,
               pile |-> <<>>,
               burned |-> <<>>,
               currentPlayerId |-> room.players[1].id,
               playersState |-> dealt.playersState,
               finished |-> <<>>,
               winnerId |-> Null,
               loserId |-> Null]]

\* room.phase and room.game, lines 382-393.
StartedRoom(room, dealt) ==
  [room EXCEPT
     !.phase = "setup",
     !.game = [deck |-> dealt.deck,
               pile |-> <<>>,
               burned |-> <<>>,
               currentPlayerId |-> room.players[1].id,
               playersState |-> dealt.playersState,
               finished |-> <<>>,
               winnerId |-> Null,
               loserId |-> Null]]

\* game:start past its guards, lines 365-393.
StartRoom(room, deck) ==
  StartedRoom(room, DealLoop(room.players, 1, deck, [q \in {} |-> 0]))

\* GameStartRoom as it would be without the check of the phase.
GameStartAnyPhase(room, sid, deck) ==
  IF room.hostSocketId # sid THEN Reject(room, "Only host can start")
  ELSE IF Len(room.players) < 2 THEN Reject(room, "Need at least 2 players")
  ELSE Accept(StartRoom(room, deck), OkReply)

\* game:start on the room found.
GameStartRoom(room, sid, deck) ==
  IF room.hostSocketId # sid THEN Reject(room, "Only host can start")
  ELSE IF Len(room.players) < 2 THEN Reject(room, "Need at least 2 players")
  ELSE IF room.phase # "lobby" THEN Reject(room, "Game already started")
  ELSE Accept(StartRoom(room, deck), OkReply)

\* for (const p of Object.values(g.playersState)) p.stage = "playing", for
\* the players in ids.
RECURSIVE StagePlaying(_, _)
StagePlaying(playersState, ids) ==
  IF ids = {} THEN playersState
  ELSE StagePlaying(
         [playersState EXCEPT ![CHOOSE q \in ids : TRUE].stage = "playing"],
         ids \ {CHOOSE q \in ids : TRUE})

\* setup:setFaceUp, lines 429-433.
AllReadyToPlaying(room) ==
  IF \A q \in DOMAIN room.game.playersState :
        room.game.playersState[q].stage = "ready"
  THEN [room EXCEPT !.phase = "playing",
                    !.game.playersState = StagePlaying(@, DOMAIN @)]
  ELSE room

\* setup:setFaceUp past its validation, lines 418-433.
LockFaceUp(room, sid, ids) ==
  AllReadyToPlaying(
    [room EXCEPT
       !.game.playersState[sid].faceUp =
          SelectSeq(room.game.playersState[sid].hand, LAMBDA c : c \in Range(ids)),
       !.game.playersState[sid].hand = SelectSeq(@, LAMBDA c : c \notin Range(ids)),
       !.game.playersState[sid].stage = "ready"])

\* setup:setFaceUp on the room found.
SetFaceUpRoom(room, sid, chosenCardIds) ==
  IF room.game = NoGame THEN Reject(room, "Game not started")
  ELSE IF ~HasPlayerState(room.game, sid) THEN Reject(room, "You are not in this game")
  ELSE IF room.game.playersState[sid].stage # "chooseFaceUp"
  THEN Reject(room, "Already locked in")
  ELSE IF Len(chosenCardIds) # LockCount THEN Reject(room, "Pick exactly 3 cards")
  ELSE IF \E i \in 1..Len(chosenCardIds) :
            chosenCardIds[i] \notin Range(room.game.playersState[sid].hand)
  THEN Reject(room, "Invalid selection")
  ELSE Accept(LockFaceUp(room, sid, chosenCardIds), OkReply)

(* ------------------------------ gameplay ------------------------------ *)

\* SpliceOut as it would be if the card left its slot empty and the last
\* card moved into it.
SpliceOutSwapLast(arr, idx) ==
  IF idx + 1 = Len(arr) THEN SubSeq(arr, 1, idx)
  ELSE SubSeq(arr, 1, idx) \o <<arr[Len(arr)]>> \o SubSeq(arr, idx + 2, Len(arr) - 1)

\* Array.prototype.splice(idx, 1) at a 0-based index of the array.
SpliceOut(arr, idx) == SubSeq(arr, 1, idx) \o SubSeq(arr, idx + 2, Len(arr))

\* g.currentPlayerId = nextPlayerId(room, socket.id, steps)
Advance(room, sid, steps) ==
  [room EXCEPT !.game.currentPlayerId = nextPlayerId(room, sid, steps)]

\* ps.hand.push(...cards, ...g.pile); g.pile = []
PickUp(room, sid, cards) ==
  [room EXCEPT !.game.playersState[sid].hand = @ \o cards \o room.game.pile,
               !.game.pile = <<>>]

\* Num8 as it would be if it told only whether an 8 was played.
AnyEight(played) == IF \E i \in 1..Len(played) : CardRank(played[i]) = "8" THEN 1 ELSE 0

\* played.filter((c) => c.r === "8").length
Num8(played) == Len(SelectSeq(played, LAMBDA c : CardRank(c) = "8"))

\* ForcedPickup as it would be if the illegal play took the 8-skip of a legal
\* one.
ForcedPickupSkipping(room, sid, played) ==
  Accept(ensureFinishAndMaybeEnd(
           Advance(PickUp(room, sid, played), sid, 1 + Num8(played))),
         [OkReply EXCEPT !.forcedPickup = TRUE])

\* lines 497-509: illegal => pickup pile and include played card(s) into hand
ForcedPickup(room, sid, played) ==
  Accept(ensureFinishAndMaybeEnd(Advance(PickUp(room, sid, played), sid, 1)),
         [OkReply EXCEPT !.forcedPickup = TRUE])

\* BurnPile as it would be if the cards of the pile were thrown away
\* without being kept in burned.
BurnPileDiscarding(room) == [room EXCEPT !.game.pile = <<>>]

\* g.burned.push(...g.pile); g.pile = []
BurnPile(room) ==
  [room EXCEPT !.game.burned = @ \o room.game.pile, !.game.pile = <<>>]

\* DrawIfHand as it would be if a play from the hand were not followed by
\* a draw.
DrawIfHandNever(room, sid, source) == room

\* if (source === "hand") drawUpToThree(room, socket.id)
DrawIfHand(room, sid, source) ==
  IF source = "hand" THEN drawUpToThree(room, sid) ELSE room

\* BurnOrAdvance as it would be if a burn passed the turn on like any other
\* legal play.
BurnThenAdvance(room, sid, source, played) ==
  IF CardRank(played[1]) = "10" \/ lastFourNon3Same(room.game.pile)
  THEN Accept(ensureFinishAndMaybeEnd(
                Advance(DrawIfHand(BurnPile(room), sid, source), sid, 1 + Num8(played))),
              [OkReply EXCEPT !.burned = TRUE])
  ELSE Accept(ensureFinishAndMaybeEnd(
                Advance(DrawIfHand(room, sid, source), sid, 1 + Num8(played))),
              OkReply)

\* BurnOrAdvance as it would be if only a 10 burned the pile.
BurnOnTenOnly(room, sid, source, played) ==
  IF CardRank(played[1]) = "10"
  THEN Accept(ensureFinishAndMaybeEnd(DrawIfHand(BurnPile(room), sid, source)),
              [OkReply EXCEPT !.burned = TRUE])
  ELSE Accept(ensureFinishAndMaybeEnd(
                Advance(DrawIfHand(room, sid, source), sid, 1 + Num8(played))),
              OkReply)

\* lines 514-542: the played cards are on the pile.
BurnOrAdvance(room, sid, source, played) ==
  IF CardRank(played[1]) = "10" \/ lastFourNon3Same(room.game.pile)
  THEN Accept(ensureFinishAndMaybeEnd(DrawIfHand(BurnPile(room), sid, source)),
              [OkReply EXCEPT !.burned = TRUE])
  ELSE Accept(ensureFinishAndMaybeEnd(
                Advance(DrawIfHand(room, sid, source), sid, 1 + Num8(played))),
              OkReply)

\* ResolvePlay as it would be if the played cards went onto the pile
\* whatever their rank.
ResolvePlayUnchecked(room, sid, source, played) ==
  BurnOrAdvance([room EXCEPT !.game.pile = @ \o played], sid, source, played)

\* play:cards, lines 494-542: the played cards are out of their zone (room
\* holds the zone without them); resolve them against the pile.
ResolvePlay(room, sid, source, played) ==
  IF ~canPlayOnPile(CardRank(played[1]), room.game.pile)
  THEN ForcedPickup(room, sid, played)
  ELSE BurnOrAdvance([room EXCEPT !.game.pile = @ \o played], sid, source, played)

\* play:cards, lines 461-468.  faceDownIndex is <<k>> for the integer k and
\* <<>> for anything Number() does not turn into an integer.
PlayFaceDown(room, sid, faceDownIndex) ==
  IF Len(faceDownIndex) # 1 THEN Reject(room, "Pick a face-down card")
  ELSE IF ~(faceDownIndex[1] >= 0
            /\ faceDownIndex[1] < Len(room.game.playersState[sid].faceDown))
  THEN Reject(room, "No card there")
  ELSE ResolvePlay(
         [room EXCEPT !.game.playersState[sid].faceDown =
                         SpliceOut(@, faceDownIndex[1])],
         sid, "faceDown",
         <<room.game.playersState[sid].faceDown[faceDownIndex[1] + 1]>>)

\* lines 488-491: the zone keeps what removeCardsByIds kept.
KeepInZone(room, sid, source, kept) ==
  IF source = "hand"
  THEN [room EXCEPT !.game.playersState[sid].hand = kept]
  ELSE [room EXCEPT !.game.playersState[sid].faceUp = kept]

\* PlayFromZone as it would be if the cards left the zone before the ranks
\* were compared.
PlayFromZoneRemoveFirst(room, sid, source, cardIds, zoneArr) ==
  IF Len(cardIds) < 1 THEN Reject(room, "Select a card")
  ELSE IF \E i \in 1..Len(cardIds) : cardIds[i] \notin Range(zoneArr)
  THEN Reject(room, "Invalid selection")
  ELSE IF \E i \in 1..Len(cardIds) : CardRank(cardIds[i]) # CardRank(cardIds[1])
  THEN Reject(KeepInZone(room, sid, source, removeCardsByIds(zoneArr, cardIds).kept),
              "You can only play multiple cards of the same rank")
  ELSE ResolvePlay(
         KeepInZone(room, sid, source, removeCardsByIds(zoneArr, cardIds).kept),
         sid, source, removeCardsByIds(zoneArr, cardIds).removed)

\* play:cards, lines 470-491, on zoneArr (the hand or the face-up cards).
PlayFromZone(room, sid, source, cardIds, zoneArr) ==
  IF Len(cardIds) < 1 THEN Reject(room, "Select a card")
  ELSE IF \E i \in 1..Len(cardIds) : cardIds[i] \notin Range(zoneArr)
  THEN Reject(room, "Invalid selection")
  ELSE IF \E i \in 1..Len(cardIds) : CardRank(cardIds[i]) # CardRank(cardIds[1])
  THEN Reject(room, "You can only play multiple cards of the same rank")
  ELSE ResolvePlay(
         KeepInZone(room, sid, source, removeCardsByIds(zoneArr, cardIds).kept),
         sid, source, removeCardsByIds(zoneArr, cardIds).removed)

\* play:cards, lines 458-492: select the cards from the zone.
SelectAndPlay(room, sid, source, cardIds, faceDownIndex) ==
  IF source = "faceDown"
  THEN PlayFaceDown(room, sid, faceDownIndex)
  ELSE PlayFromZone(room, sid, source, cardIds,
                    IF source = "hand"
                    THEN room.game.playersState[sid].hand
                    ELSE room.game.playersState[sid].faceUp)

\* `You must play from ${mustZone}`
MustPlayFrom(mustZone) ==
  CASE mustZone = "hand" -> "You must play from hand"
    [] mustZone = "faceUp" -> "You must play from faceUp"
    [] mustZone = "faceDown" -> "You must play from faceDown"

\* play:cards on the room found, lines 444-456, then the selection.
PlayCardsRoom(room, sid, source, cardIds, faceDownIndex) ==
  IF room.game = NoGame THEN Reject(room, "Game not started")
  ELSE IF room.phase # "playing" THEN Reject(room, "Not in playing phase")
  ELSE IF room.game.currentPlayerId # sid THEN Reject(room, "Not your turn")
  ELSE IF ~HasPlayerState(room.game, sid) THEN Reject(room, "You are not in this game")
  ELSE IF source # playerZoneToUse(room, sid)
  THEN Reject(room, MustPlayFrom(playerZoneToUse(room, sid)))
  ELSE SelectAndPlay(room, sid, source, cardIds, faceDownIndex)

\* PlayPickupRoom as it would be without the check of the turn.
PlayPickupAnyTurn(room, sid) ==
  IF room.game = NoGame THEN Reject(room, "Game not started")
  ELSE IF room.phase # "playing" THEN Reject(room, "Not in playing phase")
  ELSE IF ~HasPlayerState(room.game, sid) THEN Reject(room, "You are not in this game")
  ELSE Accept(ensureFinishAndMaybeEnd(Advance(PickUp(room, sid, <<>>), sid, 1)),
              OkReply)

\* PlayPickupRoom as it would be if the pickup did not end the turn.
PlayPickupKeepTurn(room, sid) ==
  IF room.game = NoGame THEN Reject(room, "Game not started")
  ELSE IF room.phase # "playing" THEN Reject(room, "Not in playing phase")
  ELSE IF room.game.currentPlayerId # sid THEN Reject(room, "Not your turn")
  ELSE IF ~HasPlayerState(room.game, sid) THEN Reject(room, "You are not in this game")
  ELSE Accept(ensureFinishAndMaybeEnd(PickUp(room, sid, <<>>)), OkReply)

\* play:pickup on the room found, lines 548-566.
PlayPickupRoom(room, sid) ==
  IF room.game = NoGame THEN Reject(room, "Game not started")
  ELSE IF room.phase # "playing" THEN Reject(room, "Not in playing phase")
  ELSE IF room.game.currentPlayerId # sid THEN Reject(room, "Not your turn")
  ELSE IF ~HasPlayerState(room.game, sid) THEN Reject(room, "You are not in this game")
  ELSE Accept(ensureFinishAndMaybeEnd(Advance(PickUp(room, sid, <<>>), sid, 1)),
              OkReply)

\* Rehost as it would be if the host role stayed with the socket that left.
RehostNever(room, sid) == room

\* lines 577-579: the host role moves to the first player left.
Rehost(room, sid) ==
  IF room.hostSocketId = sid
  THEN [room EXCEPT !.hostSocketId =
                       IF Len(room.players) > 0 THEN room.players[1].id ELSE Null]
  ELSE room

\* lines 581-583: delete room.game.playersState[socket.id]
DropPlayerState(room, sid) ==
  IF room.game # NoGame /\ HasPlayerState(room.game, sid)
  THEN [room EXCEPT !.game.playersState = [q \in (DOMAIN @) \ {sid} |-> @[q]]]
  ELSE room

\* disconnect on one room that holds the socket, lines 574-583.
DisconnectRoom(room, sid) ==
  DropPlayerState(
    Rehost([room EXCEPT !.players = SelectSeq(@, LAMBDA p : p.id # sid)], sid),
    sid)

(* --------------------------- the public view -------------------------- *)

\* PlayerPublic as it would be if the view listed the hand with the face-up
\* cards.
PlayerPublicWithHand(g, p) ==
  [id |-> p.id,
   name |-> p.name,
   handCount |-> IF HasPlayerState(g, p.id) THEN Len(g.playersState[p.id].hand) ELSE 0,
   faceDownCount |->
     IF HasPlayerState(g, p.id) THEN Len(g.playersState[p.id].faceDown) ELSE 0,
   faceUp |-> IF HasPlayerState(g, p.id)
              THEN g.playersState[p.id].faceUp \o g.playersState[p.id].hand
              ELSE <<>>]

\* One entry of playersPublic: the counts and the face-up cards of a member,
\* zero and none for a member without a PlayerState.
PlayerPublic(g, p) ==
  [id |-> p.id,
   name |-> p.name,
   handCount |-> IF HasPlayerState(g, p.id) THEN Len(g.playersState[p.id].hand) ELSE 0,
   faceDownCount |->
     IF HasPlayerState(g, p.id) THEN Len(g.playersState[p.id].faceDown) ELSE 0,
   faceUp |-> IF HasPlayerState(g, p.id) THEN g.playersState[p.id].faceUp ELSE <<>>]

\* gamePublicState of a room that has a game (null without one).
gamePublicState(room) ==
  [phase |-> room.phase,
   currentPlayerId |-> room.game.currentPlayerId,
   deckCount |-> Len(room.game.deck),
   pile |-> room.game.pile,
   pileCount |-> Len(room.game.pile),
   players |-> [i \in 1..Len(room.players) |-> PlayerPublic(room.game, room.players[i])],
   effectiveTop |-> pileEffectiveTopRank(room.game.pile),
   winnerId |-> room.game.winnerId,
   loserId |-> room.game.loserId,
   finished |-> room.game.finished]

\* publicRoomState
publicRoomState(room) ==
  [code |-> room.code,
   hostSocketId |-> room.hostSocketId,
   phase |-> room.phase,
   players |-> [i \in 1..Len(room.players) |->
                  [id |-> room.players[i].id, name |-> room.players[i].name]]]

\* io.to(room.code): every socket that joined the room's channel.
ToRoom(code) == [kind |-> "room", id |-> code]

\* io.to(pid): the socket pid alone.
ToSocket(pid) == [kind |-> "socket", id |-> pid]

\* The game:private message of emitState for the player pid.
PrivateMessage(room, pid) ==
  [to |-> ToSocket(pid),
   event |-> "game:private",
   payload |-> [room |-> publicRoomState(room),
                you |-> room.game.playersState[pid],
                gamePublic |-> gamePublicState(room)]]

\* emitState: the messages it sends, in order: room:update to the room,
\* then, with a game, game:state to the room and game:private to each
\* player of the game.
emitState(room) ==
  <<[to |-> ToRoom(room.code), event |-> "room:update",
     payload |-> publicRoomState(room)]>>
  \o (IF room.game = NoGame THEN <<>>
      ELSE <<[to |-> ToRoom(room.code), event |-> "game:state",
              payload |-> [room |-> publicRoomState(room),
                           game |-> gamePublicState(room)]]>>
           \o [k \in 1..Cardinality(DOMAIN room.game.playersState) |->
                 PrivateMessage(room, SetToSeq(DOMAIN room.game.playersState)[k])])

(* ------------------- handlers on the whole registry ------------------- *)

\* Each returns the registry after the handler and the reply to the callback.

NoRooms == [c \in {} |-> 0]

\* PutRoom as it would be if the rooms shared one Room object.
PutRoomShared(rs, code, room) == [c \in DOMAIN rs \cup {code} |-> room]

\* rooms.set(code, room); the handlers write the Room object that rooms
\* holds, so every write to it is a write to the registry.
PutRoom(rs, code, room) == (code :> room) @@ rs

\* The outcome of a handler on room `code`, in the registry.
InRoom(rs, code, res) == [rooms |-> PutRoom(rs, code, res.room), reply |-> res.reply]

NoSuchRoom(rs, msg) == [rooms |-> rs, reply |-> ErrReply(msg)]

\* room:create; `code` is what makeRoomCode returned when rooms.has(code)
\* was false.
RoomCreate(rs, sid, name, code) ==
  IF Len(SafeName(name)) = 0 THEN NoSuchRoom(rs, "Name required")
  ELSE [rooms |-> PutRoom(rs, code, NewRoom(code, sid, SafeName(name))),
        reply |-> OkReply]

RoomJoin(rs, sid, code, name) ==
  IF ~RoomHas(rs, code) THEN NoSuchRoom(rs, "Room not found")
  ELSE IF Len(SafeName(name)) = 0 THEN NoSuchRoom(rs, "Name required")
  ELSE [rooms |-> PutRoom(rs, code, JoinRoom(rs[code], sid, SafeName(name))),
        reply |-> OkReply]

GameStart(rs, sid, code, deck) ==
  IF ~RoomHas(rs, code) THEN NoSuchRoom(rs, "Room not found")
  ELSE InRoom(rs, code, GameStartRoom(rs[code], sid, deck))

SetupSetFaceUp(rs, sid, code, chosenCardIds) ==
  IF ~RoomHas(rs, code) THEN NoSuchRoom(rs, "Game not started")
  ELSE InRoom(rs, code, SetFaceUpRoom(rs[code], sid, chosenCardIds))

PlayCards(rs, sid, code, source, cardIds, faceDownIndex) ==
  IF ~RoomHas(rs, code) THEN NoSuchRoom(rs, "Game not started")
  ELSE InRoom(rs, code, PlayCardsRoom(rs[code], sid, source, cardIds, faceDownIndex))

PlayPickup(rs, sid, code) ==
  IF ~RoomHas(rs, code) THEN NoSuchRoom(rs, "Game not started")
  ELSE InRoom(rs, code, PlayPickupRoom(rs[code], sid))

\* The rooms of `after` that still have a player.
DropEmpty(after) == [c \in {d \in DOMAIN after : Len(after[d].players) > 0} |-> after[c]]

\* disconnect: every room that holds the socket loses it; a room left
\* without players is deleted.
Disconnect(rs, sid) ==
  [rooms |-> DropEmpty([c \in DOMAIN rs |->
                          IF IsMember(rs[c], sid)
                          THEN DisconnectRoom(rs[c], sid)
                          ELSE rs[c]]),
   reply |-> NoReply]

(* ------------------------ the server's state ------------------------- *)

VARIABLES
  rooms,      \* the registry: room code -> Room, for the codes in use
  connected,  \* ids of the sockets now connected
  nsock,      \* number of sockets that ever connected (ids 1..nsock)
  last,       \* the last event answered ok:true: the request and its reply
  budget,     \* state-changing events the exploration still follows
  argPile,    \* a pile handed to the rule functions
  probe       \* the last application of a rule function: arguments and result

vars == <<rooms, connected, nsock, last, budget, argPile, probe>>

\* No rule function has been applied yet.
NoProbe == [fn |-> "none"]

\* The server as one value: what the handlers read and write.
Server == [rooms |-> rooms, connected |-> connected, nsock |-> nsock, last |-> last]

\* The server after construction: `rooms = new Map()`, no connection.
Fresh ==
  [rooms |-> NoRooms, connected |-> {}, nsock |-> 0,
   last |-> [req |-> [op |-> "listen"], reply |-> NoReply]]

\* The handler of a request, by its event name.
Dispatch(rs, req) ==
  CASE req.op = "room:create" -> RoomCreate(rs, req.sid, req.name, req.code)
    [] req.op = "room:join" -> RoomJoin(rs, req.sid, req.code, req.name)
    [] req.op = "game:start" -> GameStart(rs, req.sid, req.code, req.deck)
    [] req.op = "setup:setFaceUp" ->
         SetupSetFaceUp(rs, req.sid, req.code, req.chosenCardIds)
    [] req.op = "play:cards" ->
         PlayCards(rs, req.sid, req.code, req.source, req.cardIds, req.faceDownIndex)
    [] req.op = "play:pickup" -> PlayPickup(rs, req.sid, req.code)

\* The server after a request whose handler returned `res`.  `last` keeps
\* the request and the reply of the last event answered ok:true; a reply
\* ok:false goes to the caller only.
Commit(sv, req, res) ==
  [sv EXCEPT !.rooms = res.rooms,
             !.last = IF res.reply.ok THEN [req |-> req, reply |-> res.reply] ELSE @]

\* One event on the server: a connection, a disconnect or a request.
Handle(sv, req) ==
  IF req.op = "connection"
  THEN [sv EXCEPT !.connected = @ \cup {sv.nsock + 1},
                  !.nsock = @ + 1,
                  !.last = [req |-> req, reply |-> NoReply]]
  ELSE IF req.op = "disconnect"
  THEN [sv EXCEPT !.rooms = Disconnect(sv.rooms, req.sid).rooms,
                  !.connected = @ \ {req.sid},
                  !.last = [req |-> req, reply |-> NoReply]]
  ELSE Commit(sv, req, Dispatch(sv.rooms, req))

\* The server after the events script[lo..hi], handled in order from sv.
RECURSIVE RunRange(_, _, _, _)
RunRange(sv, script, lo, hi) ==
  IF lo > hi THEN sv
  ELSE IF lo = hi THEN Handle(sv, script[lo])
  ELSE CHOOSE end \in {RunRange(mid, script, ((lo + hi) \div 2) + 1, hi) :
                          mid \in {RunRange(sv, script, lo, (lo + hi) \div 2)}} : TRUE

Run(script) == RunRange(Fresh, script, 1, Len(script))

(* ------------------------------ requests ------------------------------ *)

\* io.on("connection"): the socket gets the next id.
ReqConnection(sid) == [op |-> "connection", sid |-> sid]

\* socket.on("disconnect")
ReqDisconnect(sid) == [op |-> "disconnect", sid |-> sid]

\* socket.on("room:create", ({ name }, cb)); code is makeRoomCode's result.
ReqRoomCreate(sid, code, name) ==
  [op |-> "room:create", sid |-> sid, code |-> code, name |-> name]

\* socket.on("room:join", ({ code, name }, cb))
ReqRoomJoin(sid, code, name) ==
  [op |-> "room:join", sid |-> sid, code |-> code, name |-> name]

\* socket.on("game:start", ({ code }, cb)); deck is makeDeck's result.
ReqGameStart(sid, code, deck) ==
  [op |-> "game:start", sid |-> sid, code |-> code, deck |-> deck]

\* socket.on("setup:setFaceUp", ({ code, chosenCardIds }, cb))
ReqSetFaceUp(sid, code, chosenCardIds) ==
  [op |-> "setup:setFaceUp", sid |-> sid, code |-> code, chosenCardIds |-> chosenCardIds]

\* socket.on("play:cards", ({ code, source, cardIds, faceDownIndex }, cb))
ReqPlayCards(sid, code, source, cardIds, faceDownIndex) ==
  [op |-> "play:cards", sid |-> sid, code |-> code, source |-> source,
   cardIds |-> cardIds, faceDownIndex |-> faceDownIndex]

\* socket.on("play:pickup", ({ code }, cb))
ReqPlayPickup(sid, code) == [op |-> "play:pickup", sid |-> sid, code |-> code]

(* --------------------------- request inputs --------------------------- *)

Codes == 1..MaxRooms

\* Names a client sends: blank, padded, plain.
NameInputs == {<<" ">>, <<" ", "a", " ">>, <<"b">>}

\* A shuffle outcome that puts `front` on top of the deck, the other cards
\* after it in the order of the unshuffled deck.
OrderWithFront(front) ==
  front \o SetToSeq((1..Len(UnshuffledDeck)) \ Range(front))

\* The tops of the shuffle outcomes explored (cards by unshuffled position:
\* spades 1..13 = A,2..10,J,Q,K, hearts 14..26, diamonds 27..39, clubs 40..52).
ShuffleFronts ==
  << \* 1: faceDown 1 (Qc 4c 9c), hand 1 (10s 8s Ks 5s 5h 4s),
     \*    faceDown 2 (Jc 6c 7c), hand 2 (5d 5c 9s 4h 8h 10h)
     <<51, 43, 48, 10, 8, 13, 5, 18, 4, 50, 45, 46, 31, 44, 9, 17, 21, 23>>,
     \* 2: the unshuffled deck
     <<>>,
     \* 3: eights and sevens first
     <<8, 21, 34, 47, 7, 20, 33, 46, 2, 15, 28, 41>>,
     \* 4: tens and threes first
     <<10, 3, 23, 16, 36, 29, 49, 42>> >>

ShuffleOrders == {OrderWithFront(ShuffleFronts[k]) : k \in 1..MaxShuffles}

\* The lowest card id that is not in s.
ForeignCard(s) ==
  CHOOSE x \in 1..(Len(s) + 1) :
    x \notin Range(s) /\ \A y \in 1..(x - 1) : y \in Range(s)

\* chosenCardIds a client may send for its hand: the first three, the last
\* three, a repeated id, too few, ids that are not in the hand.
LockInputs(hand) ==
  {SubSeq(hand, 1, Min(Len(hand), LockCount)),
   SubSeq(hand, Len(hand) - Min(Len(hand), LockCount) + 1, Len(hand)),
   SubSeq(hand, 1, Min(Len(hand), LockCount - 1)),
   <<ForeignCard(hand), ForeignCard(hand), ForeignCard(hand)>>}
  \cup (IF Len(hand) >= 2
        THEN {<<hand[1], hand[1], hand[2]>>, <<hand[1], hand[2], ForeignCard(hand)>>}
        ELSE {})

\* The non-empty sets of at most MaxSelect cards of one rank in the zone.
RankGroups(zone) ==
  UNION {{G \in SUBSET {c \in Range(zone) : CardRank(c) = ranks[r]} :
            G # {} /\ Cardinality(G) <= MaxSelect} : r \in 1..Len(ranks)}

\* cardIds a client may send for a zone: each rank group (ascending),
\* nothing, a repeated id, two ranks, an id that is not in the zone.
SelectionInputs(zone) ==
  {SetToSeq(G) : G \in RankGroups(zone)}
  \cup {<<>>, <<ForeignCard(zone)>>}
  \cup (IF Len(zone) >= 1 THEN {<<zone[1], zone[1]>>} ELSE {})
  \cup {<<zone[1], zone[i]>> :
          i \in {j \in 1..Len(zone) : CardRank(zone[j]) # CardRank(zone[1])}}

\* faceDownIndex a client may send: no index, one below, the slots, one above.
IndexInputs == {<<>>} \cup {<<k>> : k \in (0 - 1)..DealFaceDown}

\* The zone of socket sid in room code, empty without a PlayerState.
ZoneOf(rs, sid, code, zone) ==
  IF RoomHas(rs, code) /\ rs[code].game # NoGame /\ HasPlayerState(rs[code].game, sid)
  THEN (CASE zone = "hand" -> rs[code].game.playersState[sid].hand
          [] zone = "faceUp" -> rs[code].game.playersState[sid].faceUp
          [] zone = "faceDown" -> rs[code].game.playersState[sid].faceDown)
  ELSE <<>>

SetFaceUpRequests(rs, sid, code) ==
  {ReqSetFaceUp(sid, code, ids) : ids \in LockInputs(ZoneOf(rs, sid, code, "hand"))}

PlayCardsRequests(rs, sid, code) ==
  {ReqPlayCards(sid, code, "hand", ids, <<>>) :
     ids \in SelectionInputs(ZoneOf(rs, sid, code, "hand"))}
  \cup
  {ReqPlayCards(sid, code, "faceUp", ids, <<>>) :
     ids \in SelectionInputs(ZoneOf(rs, sid, code, "faceUp"))}
  \cup
  {ReqPlayCards(sid, code, "faceDown", <<>>, k) : k \in IndexInputs}

\* The position of rank r in `ranks`.
RankIndex(r) == CHOOSE k \in 1..Len(ranks) : ranks[k] = r

\* The cards of a pile whose ranks are rs, bottom first: the k-th card of a
\* rank is the one of the k-th suit.
CardsOf(rs) ==
  [i \in 1..Len(rs) |->
     (Cardinality({j \in 1..i : rs[j] = rs[i]}) - 1) * Len(ranks) + RankIndex(rs[i])]

\* The rank sequences of length at most n over R that one deck can deal: no
\* rank more often than there are suits.
RankSeqs(R, n) ==
  {rs \in UNION {[1..k -> R] : k \in 0..n} :
     \A r \in R : Cardinality({j \in DOMAIN rs : rs[j] = r}) <= Len(suits)}

\* The ranks the deep piles are built of.
DeepPileRanks == {"3", "7", "8"}

\* The piles handed to the rule functions: every pile of at most
\* MaxShortPile cards by rank, and the deeper piles of 3s, 7s and 8s.
PileInputs ==
  {CardsOf(rs) : rs \in RankSeqs(Range(ranks), MaxShortPile)
                        \cup RankSeqs(DeepPileRanks, MaxDeepPile)}

(* ------------------------- recorded behaviours ------------------------ *)

\* Request sequences the server accepts one after the other from Fresh.
\* The states they pass through are states of the program; an exploration
\* may start from any of them.

\* The shuffle outcome of a game of two players.
TwoPlayerGameOrder ==
  <<14, 29, 4, 20, 30, 27, 52, 23, 37, 11, 33, 7, 12,
     18, 34, 49, 25, 32, 2, 19, 6, 3, 22, 45, 48, 44,
     42, 28, 43, 21, 8, 10, 26, 50, 40, 13, 15, 36, 17,
     46, 1, 47, 5, 51, 41, 31, 39, 24, 9, 35, 38, 16 >>

\* a game of two players: the requests of one whole game, in the order the server
\* handled them.
TwoPlayerGame ==
  << ReqConnection(1),
     ReqConnection(2),
     ReqRoomCreate(1, 1, <<"a">>),
     ReqRoomJoin(2, 1, <<"b">>),
     ReqGameStart(1, 1, makeDeck(TwoPlayerGameOrder)),
     ReqSetFaceUp(1, 1, <<23, 27, 52>>),
     ReqSetFaceUp(2, 1, <<12, 25, 49>>),
     ReqPlayCards(1, 1, "hand", <<30>>, <<>>),
     ReqPlayCards(2, 1, "hand", <<18>>, <<>>),
     ReqPlayCards(1, 1, "hand", <<20>>, <<>>),
     ReqPlayCards(2, 1, "hand", <<19, 32>>, <<>>),
     ReqPlayCards(1, 1, "hand", <<6>>, <<>>),
     ReqPlayCards(2, 1, "hand", <<34>>, <<>>),
     ReqPlayCards(2, 1, "hand", <<22, 48>>, <<>>),
     ReqPlayCards(1, 1, "hand", <<37>>, <<>>),
     ReqPlayCards(2, 1, "hand", <<3, 42>>, <<>>),
     ReqPlayCards(1, 1, "hand", <<2, 28>>, <<>>),
     ReqPlayCards(2, 1, "hand", <<43>>, <<>>),
     ReqPlayCards(1, 1, "hand", <<45>>, <<>>),
     ReqPlayCards(2, 1, "hand", <<21>>, <<>>),
     ReqPlayCards(2, 1, "hand", <<26>>, <<>>),
     ReqPlayCards(1, 1, "hand", <<10>>, <<>>),
     ReqPlayCards(1, 1, "hand", <<8>>, <<>>),
     ReqPlayCards(1, 1, "hand", <<50>>, <<>>),
     ReqPlayCards(2, 1, "hand", <<13>>, <<>>),
     ReqPlayCards(1, 1, "hand", <<15>>, <<>>),
     ReqPlayCards(2, 1, "hand", <<44>>, <<>>),
     ReqPlayCards(1, 1, "hand", <<1>>, <<>>),
     ReqPlayCards(2, 1, "hand", <<40>>, <<>>),
     ReqPlayCards(1, 1, "hand", <<36>>, <<>>),
     ReqPlayCards(1, 1, "hand", <<17>>, <<>>),
     ReqPlayCards(2, 1, "hand", <<46>>, <<>>),
     ReqPlayCards(1, 1, "hand", <<5, 31>>, <<>>),
     ReqPlayCards(2, 1, "hand", <<47>>, <<>>),
     ReqPlayCards(2, 1, "hand", <<35>>, <<>>),
     ReqPlayCards(1, 1, "hand", <<9>>, <<>>),
     ReqPlayCards(2, 1, "hand", <<38, 51>>, <<>>),
     ReqPlayCards(1, 1, "hand", <<16>>, <<>>),
     ReqPlayCards(2, 1, "hand", <<39>>, <<>>),
     ReqPlayCards(1, 1, "hand", <<41>>, <<>>),
     ReqPlayCards(2, 1, "faceUp", <<12, 25>>, <<>>),
     ReqPlayPickup(1, 1),
     ReqPlayCards(2, 1, "faceUp", <<49>>, <<>>),
     ReqPlayCards(2, 1, "faceDown", <<>>, <<0>>),
     ReqPlayCards(1, 1, "hand", <<24>>, <<>>),
     ReqPlayCards(2, 1, "faceDown", <<>>, <<0>>),
     ReqPlayCards(1, 1, "hand", <<17>>, <<>>),
     ReqPlayCards(2, 1, "hand", <<33>>, <<>>),
     ReqPlayCards(1, 1, "hand", <<5, 31>>, <<>>),
     ReqPlayCards(2, 1, "hand", <<11, 24>>, <<>>),
     ReqPlayCards(1, 1, "hand", <<12, 25, 38, 51>>, <<>>),
     ReqPlayCards(1, 1, "hand", <<46>>, <<>>),
     ReqPlayCards(2, 1, "faceDown", <<>>, <<0>>) >>

\* The shuffle outcome of a game of three players.
ThreePlayerGameOrder ==
  <<27, 46, 36, 43, 20, 25, 51, 38, 14, 31, 48, 13, 3,
     34, 4, 17, 19, 11, 50, 26, 12, 40, 41, 9, 44, 45,
     10, 33, 23, 18, 35, 8, 49, 30, 39, 42, 21, 6, 37,
     47, 28, 22, 7, 16, 15, 5, 24, 32, 2, 29, 1, 52 >>

\* a game of three players: the requests of one whole game, in the order the server
\* handled them.
ThreePlayerGame ==
  << ReqConnection(1),
     ReqConnection(2),
     ReqConnection(3),
     ReqRoomCreate(1, 1, <<"a">>),
     ReqRoomJoin(2, 1, <<"b">>),
     ReqRoomJoin(3, 1, <<"c">>),
     ReqGameStart(1, 1, makeDeck(ThreePlayerGameOrder)),
     ReqSetFaceUp(1, 1, <<14, 38, 51>>),
     ReqSetFaceUp(2, 1, <<3, 11, 34>>),
     ReqSetFaceUp(3, 1, <<10, 40, 41>>),
     ReqPlayCards(1, 1, "hand", <<43>>, <<>>),
     ReqPlayCards(2, 1, "hand", <<4, 17>>, <<>>),
     ReqPlayCards(3, 1, "hand", <<44>>, <<>>),
     ReqPlayCards(1, 1, "hand", <<20, 33>>, <<>>),
     ReqPlayCards(2, 1, "hand", <<18>>, <<>>),
     ReqPlayCards(3, 1, "hand", <<45>>, <<>>),
     ReqPlayCards(1, 1, "hand", <<8>>, <<>>),
     ReqPlayCards(3, 1, "hand", <<9, 35>>, <<>>),
     ReqPlayCards(1, 1, "hand", <<25>>, <<>>),
     ReqPlayCards(2, 1, "hand", <<23>>, <<>>),
     ReqPlayCards(2, 1, "hand", <<30>>, <<>>),
     ReqPlayCards(3, 1, "hand", <<6>>, <<>>),
     ReqPlayCards(1, 1, "hand", <<37>>, <<>>),
     ReqPlayCards(2, 1, "hand", <<28>>, <<>>),
     ReqPlayCards(3, 1, "hand", <<21>>, <<>>),
     ReqPlayCards(2, 1, "hand", <<47>>, <<>>),
     ReqPlayCards(1, 1, "hand", <<42>>, <<>>),
     ReqPlayCards(2, 1, "hand", <<16>>, <<>>),
     ReqPlayCards(3, 1, "hand", <<22>>, <<>>),
     ReqPlayCards(1, 1, "hand", <<24>>, <<>>),
     ReqPlayPickup(2, 1),
     ReqPlayCards(3, 1, "hand", <<39>>, <<>>),
     ReqPlayCards(1, 1, "hand", <<29>>, <<>>),
     ReqPlayCards(2, 1, "hand", <<16, 42>>, <<>>),
     ReqPlayCards(3, 1, "hand", <<1>>, <<>>),
     ReqPlayCards(1, 1, "hand", <<49>>, <<>>),
     ReqPlayCards(1, 1, "hand", <<7>>, <<>>),
     ReqPlayCards(2, 1, "hand", <<30>>, <<>>),
     ReqPlayCards(3, 1, "hand", <<2, 15>>, <<>>),
     ReqPlayCards(1, 1, "hand", <<52>>, <<>>),
     ReqPlayCards(2, 1, "hand", <<28>>, <<>>),
     ReqPlayCards(3, 1, "faceUp", <<40>>, <<>>),
     ReqPlayCards(1, 1, "faceUp", <<14>>, <<>>),
     ReqPlayPickup(2, 1),
     ReqPlayCards(3, 1, "faceUp", <<41>>, <<>>),
     ReqPlayCards(1, 1, "faceUp", <<38, 51>>, <<>>),
     ReqPlayCards(2, 1, "hand", <<52>>, <<>>),
     ReqPlayCards(3, 1, "faceUp", <<10>>, <<>>),
     ReqPlayCards(3, 1, "faceDown", <<>>, <<0>>),
     ReqPlayCards(1, 1, "faceDown", <<>>, <<0>>),
     ReqPlayCards(2, 1, "hand", <<14, 40>>, <<>>),
     ReqPlayCards(3, 1, "faceDown", <<>>, <<0>>),
     ReqPlayCards(1, 1, "faceDown", <<>>, <<0>>),
     ReqPlayCards(2, 1, "hand", <<30>>, <<>>),
     ReqPlayCards(3, 1, "hand", <<50>>, <<>>),
     ReqPlayCards(1, 1, "faceDown", <<>>, <<0>>),
     ReqPlayCards(3, 1, "hand", <<26>>, <<>>),
     ReqPlayCards(2, 1, "hand", <<2, 15, 28>>, <<>>),
     ReqPlayCards(3, 1, "hand", <<14, 27, 40>>, <<>>),
     ReqPlayPickup(2, 1),
     ReqPlayCards(3, 1, "faceDown", <<>>, <<0>>) >>


\* n sockets connect, the first creates room 1, the others join it.
LobbyScript(n) ==
  [i \in 1..n |-> ReqConnection(i)]
  \o <<ReqRoomCreate(1, 1, <<"a">>)>>
  \o [i \in 1..(n - 1) |-> ReqRoomJoin(i + 1, 1, <<"b">>)]

\* Two rooms with a socket in both: sockets 1 and 2 play in room 1, sockets
\* 2 and 3 play in room 2 (both games dealt from the shuffle outcome of the
\* game of two players), and socket 3 joins room 1 once its game is under
\* way.
TwoRoomsGame ==
  << ReqConnection(1),
     ReqConnection(2),
     ReqConnection(3),
     ReqRoomCreate(1, 1, <<"a">>),
     ReqRoomJoin(2, 1, <<"b">>),
     ReqRoomCreate(2, 2, <<"b">>),
     ReqRoomJoin(3, 2, <<"c">>),
     ReqGameStart(1, 1, makeDeck(TwoPlayerGameOrder)),
     ReqGameStart(2, 2, makeDeck(TwoPlayerGameOrder)),
     ReqSetFaceUp(1, 1, <<23, 27, 52>>),
     ReqSetFaceUp(2, 1, <<12, 25, 49>>),
     ReqSetFaceUp(2, 2, <<23, 27, 52>>),
     ReqSetFaceUp(3, 2, <<12, 25, 49>>),
     ReqRoomJoin(3, 1, <<"c">>),
     ReqPlayCards(1, 1, "hand", <<30>>, <<>>),
     ReqPlayCards(2, 1, "hand", <<18>>, <<>>),
     ReqPlayCards(2, 2, "hand", <<30>>, <<>>) >>

\* The servers after script[lo], ..., after script[hi], sv being the server
\* before script[lo].
RECURSIVE ReachedRange(_, _, _, _)
ReachedRange(sv, script, lo, hi) ==
  IF lo > hi THEN {}
  ELSE IF lo = hi THEN {Handle(sv, script[lo])}
  ELSE UNION {ReachedRange(sv, script, lo, (lo + hi) \div 2)
              \cup ReachedRange(mid, script, ((lo + hi) \div 2) + 1, hi) :
                mid \in {RunRange(sv, script, lo, (lo + hi) \div 2)}}

\* The servers after each prefix of `script`.
Reached(script) == {Fresh} \cup ReachedRange(Fresh, script, 1, Len(script))

(* ------------------------------ actions ------------------------------- *)

\* The codes a request may name: those makeRoomCode may hand out and those
\* of the rooms in the registry.
CodesNow == Codes \cup DOMAIN rooms

\* The server handles the event `req`.
Do(req) ==
  /\ budget > 0
  /\ \E nv \in {Handle(Server, req)} :
       /\ rooms' = nv.rooms
       /\ connected' = nv.connected
       /\ nsock' = nv.nsock
       /\ last' = nv.last
       /\ budget' = IF nv.rooms = rooms /\ nv.connected = connected /\ nv.last = last
                    THEN budget ELSE budget - 1
       /\ UNCHANGED <<argPile, probe>>

OnConnection ==
  /\ nsock < MaxSockets
  /\ Do(ReqConnection(nsock + 1))

OnRoomCreate ==
  \E sid \in connected, name \in NameInputs, code \in Codes \ DOMAIN rooms :
    Do(ReqRoomCreate(sid, code, name))

OnRoomJoin ==
  \E sid \in connected, name \in NameInputs, code \in CodesNow :
    Do(ReqRoomJoin(sid, code, name))

OnGameStart ==
  \E sid \in connected, code \in CodesNow, order \in ShuffleOrders :
    Do(ReqGameStart(sid, code, makeDeck(order)))

OnSetFaceUp ==
  \E sid \in connected, code \in CodesNow :
    \E req \in SetFaceUpRequests(rooms, sid, code) : Do(req)

OnPlayCards ==
  \E sid \in connected, code \in CodesNow :
    \E req \in PlayCardsRequests(rooms, sid, code) : Do(req)

OnPlayPickup ==
  \E sid \in connected, code \in CodesNow : Do(ReqPlayPickup(sid, code))

OnDisconnect ==
  \E sid \in connected : Do(ReqDisconnect(sid))

Init ==
  /\ rooms = Fresh.rooms
  /\ connected = Fresh.connected
  /\ nsock = Fresh.nsock
  /\ last = Fresh.last
  /\ budget = MaxSteps
  /\ argPile = <<>>
  /\ probe = NoProbe

Next ==
  \/ OnConnection
  \/ OnRoomCreate
  \/ OnRoomJoin
  \/ OnGameStart
  \/ OnSetFaceUp
  \/ OnPlayCards
  \/ OnPlayPickup
  \/ OnDisconnect

Spec == Init /\ [][Next]_vars

\* The same server, explored from the states the recorded behaviours pass
\* through.
InitRecorded ==
  \E sv \in Reached(TwoPlayerGame) \cup Reached(ThreePlayerGame)
              \cup Reached(LobbyScript(MaxPlayers)) :
    /\ rooms = sv.rooms
    /\ connected = sv.connected
    /\ nsock = sv.nsock
    /\ last = sv.last
    /\ budget = MaxPlays
    /\ argPile = <<>>
    /\ probe = NoProbe

SpecRecorded == InitRecorded /\ [][Next]_vars

\* The game of two players up to its last play but one; then socket 3
\* connects and joins the room, socket 1 disconnects, and socket 2 plays its
\* last card.
LateJoinerEnding ==
  << ReqConnection(3),
     ReqRoomJoin(3, 1, <<"c">>),
     ReqDisconnect(1),
     TwoPlayerGame[Len(TwoPlayerGame)] >>

\* The same server, explored from the states of the behaviour with two
\* rooms and from those of the ending with a late joiner.
InitRooms ==
  \E sv \in Reached(TwoRoomsGame)
              \cup ReachedRange(Run(SubSeq(TwoPlayerGame, 1, Len(TwoPlayerGame) - 1)),
                                LateJoinerEnding, 1, Len(LateJoinerEnding)) :
    /\ rooms = sv.rooms
    /\ connected = sv.connected
    /\ nsock = sv.nsock
    /\ last = sv.last
    /\ budget = MaxPlays
    /\ argPile = <<>>
    /\ probe = NoProbe

SpecRooms == InitRooms /\ [][Next]_vars

(* --------------------------- rule functions --------------------------- *)

\* canPlayOnPile is applied to a rank and the pile.
ApplyCanPlayOnPile ==
  /\ \E r \in Range(ranks) :
       probe' = [fn |-> "canPlayOnPile", rank |-> r, result |-> canPlayOnPile(r, argPile)]
  /\ UNCHANGED <<rooms, connected, nsock, last, budget, argPile>>

\* lastFourNon3Same is applied to the pile.
ApplyLastFourNon3Same ==
  /\ probe' = [fn |-> "lastFourNon3Same", result |-> lastFourNon3Same(argPile)]
  /\ UNCHANGED <<rooms, connected, nsock, last, budget, argPile>>

\* pileEffectiveTopRank is applied to the pile.
ApplyPileEffectiveTopRank ==
  /\ probe' = [fn |-> "pileEffectiveTopRank", result |-> pileEffectiveTopRank(argPile)]
  /\ UNCHANGED <<rooms, connected, nsock, last, budget, argPile>>

\* emitState builds the public view of a room that has a game.
ApplyGamePublicState ==
  /\ \E code \in DOMAIN rooms :
       /\ rooms[code].game # NoGame
       /\ probe' = [fn |-> "gamePublicState", code |-> code,
                    result |-> gamePublicState(rooms[code])]
  /\ UNCHANGED <<rooms, connected, nsock, last, budget, argPile>>

\* emitState sends the views of a room.
ApplyEmitState ==
  /\ \E code \in DOMAIN rooms :
       probe' = [fn |-> "emitState", code |-> code, result |-> emitState(rooms[code])]
  /\ UNCHANGED <<rooms, connected, nsock, last, budget, argPile>>

\* The rule functions on the bounded piles, and on the pile of the game of
\* three players in each state that game passes through.
InitRules ==
  /\ budget = 0
  /\ probe = NoProbe
  /\ \/ /\ rooms = Fresh.rooms
        /\ connected = Fresh.connected
        /\ nsock = Fresh.nsock
        /\ last = Fresh.last
        /\ argPile \in PileInputs
     \/ \E sv \in Reached(ThreePlayerGame) :
          /\ 1 \in DOMAIN sv.rooms
          /\ sv.rooms[1].game # NoGame
          /\ rooms = sv.rooms
          /\ connected = sv.connected
          /\ nsock = sv.nsock
          /\ last = sv.last
          /\ argPile = sv.rooms[1].game.pile

NextRules ==
  \/ ApplyCanPlayOnPile
  \/ ApplyLastFourNon3Same
  \/ ApplyPileEffectiveTopRank
  \/ ApplyEmitState
  \/ ApplyGamePublicState

SpecRules == InitRules /\ [][NextRules]_vars

(* ----------------------------- properties ----------------------------- *)

\* The requests the connected sockets may send in the current state.
PlayCardsNow ==
  UNION {PlayCardsRequests(rooms, sid, code) : sid \in connected, code \in CodesNow}

PlayPickupNow == {ReqPlayPickup(sid, code) : sid \in connected, code \in CodesNow}

GameStartNow ==
  {ReqGameStart(sid, code, makeDeck(order)) :
     sid \in connected, code \in CodesNow, order \in ShuffleOrders}

\* The room a request names, before the request; what the server answers
\* and holds after it; the room after it.
Before(req) == rooms[req.code]

Outcome(req) == Dispatch(rooms, req)

After(req) == Outcome(req).rooms[req.code]

\* The request is answered ok:false and nothing changes.
Rejected(req) == ~Outcome(req).reply.ok /\ Outcome(req).rooms = rooms

\* The request comes from the player whose turn it is, in a room that plays.
HoldsTurn(req) ==
  /\ req.code \in DOMAIN rooms
  /\ Before(req).game # NoGame
  /\ Before(req).phase = "playing"
  /\ Before(req).game.currentPlayerId = req.sid
  /\ req.sid \in DOMAIN Before(req).game.playersState

\* A zone ("hand", "faceUp", "faceDown") of a player of the room.
ZoneCards(room, sid, zone) == room.game.playersState[sid][zone]

\* The zone the rules require of the player: the hand while the deck or the
\* hand holds a card, then the face-up cards, then the face-down cards.
RequiredZone(room, sid) ==
  IF room.game.deck # <<>> \/ ZoneCards(room, sid, "hand") # <<>> THEN "hand"
  ELSE IF ZoneCards(room, sid, "faceUp") # <<>> THEN "faceUp"
  ELSE "faceDown"

\* The selection of a play:cards request is valid and of one rank.
WellSelected(req) ==
  IF req.source = "faceDown"
  THEN /\ Len(req.faceDownIndex) = 1
       /\ req.faceDownIndex[1] \in
            0..(Len(ZoneCards(Before(req), req.sid, "faceDown")) - 1)
  ELSE /\ req.cardIds # <<>>
       /\ Range(req.cardIds) \subseteq Range(ZoneCards(Before(req), req.sid, req.source))
       /\ \A c, d \in Range(req.cardIds) : CardRank(c) = CardRank(d)

\* The request passes the validation of play:cards.
Validated(req) ==
  /\ HoldsTurn(req)
  /\ req.source = RequiredZone(Before(req), req.sid)
  /\ WellSelected(req)

\* The cards a validated request plays, in the order of their zone.
Chosen(req) ==
  IF req.source = "faceDown"
  THEN <<ZoneCards(Before(req), req.sid, "faceDown")[req.faceDownIndex[1] + 1]>>
  ELSE SelectSeq(ZoneCards(Before(req), req.sid, req.source),
                 LAMBDA c : c \in Range(req.cardIds))

\* What a zone of the actor holds once the played cards have left it.
Remaining(req, zone) ==
  IF req.source = zone
  THEN SelectSeq(ZoneCards(Before(req), req.sid, zone),
                 LAMBDA c : c \notin Range(Chosen(req)))
  ELSE ZoneCards(Before(req), req.sid, zone)

\* The rank played is playable on the pile.
Legal(req) == canPlayOnPile(CardRank(Chosen(req)[1]), Before(req).game.pile)

\* The last four cards of the pile that are not 3s have one rank.
FourOfAKind(pile) ==
  LET non3 == SelectSeq(pile, LAMBDA c : CardRank(c) # "3")
  IN /\ Len(non3) >= 4
     /\ \A i \in (Len(non3) - 3)..Len(non3) : CardRank(non3[i]) = CardRank(non3[Len(non3)])

\* The play burns the pile.
Burning(req) ==
  \/ CardRank(Chosen(req)[1]) = "10"
  \/ FourOfAKind(Before(req).game.pile \o Chosen(req))

Eights(cards) == Cardinality({i \in 1..Len(cards) : CardRank(cards[i]) = "8"})

\* The player holds at least one card.
HoldsCards(room, sid) ==
  /\ sid \in DOMAIN room.game.playersState
  /\ \E zone \in {"hand", "faceUp", "faceDown"} : ZoneCards(room, sid, zone) # <<>>

\* The members of the room that are not in finished, in join order.
Unfinished(room) ==
  SelectSeq([i \in 1..Len(room.players) |-> room.players[i].id],
            LAMBDA id : id \notin Range(room.game.finished))

\* The position of id in the list L, from 0.
SeatOf(L, id) == (CHOOSE i \in 1..Len(L) : L[i] = id) - 1

\* The entry of L that is k steps after id, wrapping around.
AtOffset(L, id, k) == L[((SeatOf(L, id) + k) % Len(L)) + 1]

(* C1: a play:cards request that passes validation but whose rank is not   *)
(* playable on the pile is answered ok with forcedPickup = true; afterwards *)
(* the actor's hand is its remaining hand, then the played cards, then the  *)
(* prior pile; the pile is empty; deck and burned are unchanged; and the    *)
(* turn is with the unfinished member one step after the actor.             *)
C1_IllegalPlayForcesPickup ==
  \A req \in PlayCardsNow :
    (Validated(req) /\ ~Legal(req)) =>
      /\ Outcome(req).reply.ok
      /\ Outcome(req).reply.forcedPickup
      /\ ZoneCards(After(req), req.sid, "hand") =
           Remaining(req, "hand") \o Chosen(req) \o Before(req).game.pile
      /\ ZoneCards(After(req), req.sid, "faceUp") = Remaining(req, "faceUp")
      /\ ZoneCards(After(req), req.sid, "faceDown") = Remaining(req, "faceDown")
      /\ After(req).game.pile = <<>>
      /\ After(req).game.deck = Before(req).game.deck
      /\ After(req).game.burned = Before(req).game.burned
      /\ After(req).game.currentPlayerId =
           AtOffset(Unfinished(Before(req)), req.sid, 1)

\* An illegal 8 from the hand was answered forcedPickup in a room of three:
\* the pile is in the actor's hand and the turn moved one step.
C1_Witness ==
  /\ last.req.op = "play:cards"
  /\ last.reply.forcedPickup
  /\ last.req.source = "hand"
  /\ CardRank(last.req.cardIds[1]) = "8"
  /\ last.req.code \in DOMAIN rooms
  /\ Len(rooms[last.req.code].players) = 3
  /\ rooms[last.req.code].game.pile = <<>>
  /\ last.req.cardIds[1] \in Range(ZoneCards(rooms[last.req.code], last.req.sid, "hand"))
  /\ rooms[last.req.code].game.currentPlayerId =
       AtOffset(Unfinished(rooms[last.req.code]), last.req.sid, 1)

(* C2: a validated play of rank 10, on any pile, or a legal play after     *)
(* which the last four non-3 cards of the pile have one rank, is answered   *)
(* ok with burned = true; the prior pile and the played cards are appended  *)
(* to burned; the pile is empty; and if the actor still holds a card the    *)
(* turn is still the actor's, also when the played cards are 8s.            *)
C2_BurnKeepsTurn ==
  \A req \in PlayCardsNow :
    (/\ Validated(req)
     /\ \/ CardRank(Chosen(req)[1]) = "10"
        \/ Legal(req) /\ Burning(req)) =>
      /\ Outcome(req).reply.ok
      /\ Outcome(req).reply.burned
      /\ ~Outcome(req).reply.forcedPickup
      /\ After(req).game.burned =
           Before(req).game.burned \o Before(req).game.pile \o Chosen(req)
      /\ After(req).game.pile = <<>>
      /\ HoldsCards(After(req), req.sid) =>
           After(req).game.currentPlayerId = req.sid

\* A play that was not a 10 burned the pile by four of a kind; the actor
\* still holds cards and still has the turn.
C2_Witness ==
  /\ last.req.op = "play:cards"
  /\ last.reply.burned
  /\ last.req.source = "hand"
  /\ CardRank(last.req.cardIds[1]) # "10"
  /\ last.req.code \in DOMAIN rooms
  /\ rooms[last.req.code].game.pile = <<>>
  /\ last.req.cardIds[1] \in Range(rooms[last.req.code].game.burned)
  /\ HoldsCards(rooms[last.req.code], last.req.sid)
  /\ rooms[last.req.code].game.currentPlayerId = last.req.sid
  /\ rooms[last.req.code].phase = "playing"

(* C3: after a legal play that does not burn and leaves the actor holding   *)
(* cards, with the n unfinished members in join order, the actor at         *)
(* position i and k played cards of rank 8, the turn is with the unfinished *)
(* member at position (i + 1 + k) mod n.                                    *)
C3_EightsSkip ==
  \A req \in PlayCardsNow :
    (/\ Validated(req)
     /\ Legal(req)
     /\ ~Burning(req)
     /\ HoldsCards(After(req), req.sid)) =>
      /\ Outcome(req).reply.ok
      /\ ~Outcome(req).reply.burned
      /\ ~Outcome(req).reply.forcedPickup
      /\ After(req).game.currentPlayerId =
           AtOffset(Unfinished(Before(req)), req.sid, 1 + Eights(Chosen(req)))

\* Two 8s were played in a room of three unfinished members: the turn is
\* back with the actor.
C3_Witness ==
  /\ last.req.op = "play:cards"
  /\ ~last.reply.burned
  /\ ~last.reply.forcedPickup
  /\ last.req.source = "hand"
  /\ Len(last.req.cardIds) = 2
  /\ CardRank(last.req.cardIds[1]) = "8"
  /\ last.req.code \in DOMAIN rooms
  /\ Len(Unfinished(rooms[last.req.code])) = 3
  /\ HoldsCards(rooms[last.req.code], last.req.sid)
  /\ rooms[last.req.code].game.currentPlayerId = last.req.sid

(* C4: in every reachable state a play:cards or play:pickup request from a  *)
(* socket other than currentPlayerId, or to a room that is not in phase     *)
(* playing, is answered ok:false and changes nothing; so a play request     *)
(* that changes anything comes from the player who holds the turn.          *)
C4_OnlyTurnHolderPlays ==
  \A req \in PlayCardsNow \cup PlayPickupNow :
    /\ ~HoldsTurn(req) => Rejected(req)
    /\ Outcome(req).rooms # rooms =>
         /\ Before(req).phase = "playing"
         /\ Before(req).game.currentPlayerId = req.sid

\* In a room that plays, with cards on the pile, the player who has just
\* played and passed the turn asks to play a legal card of its required
\* zone, and to pick up: both are answered ok:false and change nothing.
C4_Witness ==
  /\ last.req.op = "play:cards"
  /\ last.req.code \in DOMAIN rooms
  /\ rooms[last.req.code].phase = "playing"
  /\ rooms[last.req.code].game.pile # <<>>
  /\ rooms[last.req.code].game.currentPlayerId # last.req.sid
  /\ last.req.sid \in connected
  /\ \E req \in PlayCardsRequests(rooms, last.req.sid, last.req.code) :
       /\ req.sid \in DOMAIN Before(req).game.playersState
       /\ req.source = RequiredZone(Before(req), req.sid)
       /\ WellSelected(req)
       /\ Legal(req)
       /\ Rejected(req)
  /\ Rejected(ReqPlayPickup(last.req.sid, last.req.code))

\* The cards that are in a zone of player q in room `before` and not in
\* room `after`.
Lost(before, after, q, zone) ==
  Range(ZoneCards(before, q, zone)) \ Range(ZoneCards(after, q, zone))

(* C5: on every accepted play:cards, while the deck is non-empty cards      *)
(* leave only the actor's hand; cards leave a player's faceUp only when the *)
(* deck and that player's hand were empty before; a card leaves a player's  *)
(* faceDown only when the deck, that player's hand and faceUp were empty    *)
(* before.  A request naming another zone than the required one is          *)
(* answered ok:false and changes nothing.                                   *)
C5_ZoneProgression ==
  \A req \in PlayCardsNow :
    LET out == Outcome(req)
        before == Before(req)
        after == out.rooms[req.code]
    IN /\ (req.code \in DOMAIN rooms /\ out.reply.ok) =>
            \A q \in DOMAIN before.game.playersState :
              /\ q \in DOMAIN after.game.playersState
              /\ q # req.sid =>
                   \A zone \in {"hand", "faceUp", "faceDown"} :
                     Lost(before, after, q, zone) = {}
              /\ before.game.deck # <<>> =>
                   /\ Lost(before, after, q, "faceUp") = {}
                   /\ Lost(before, after, q, "faceDown") = {}
              /\ Lost(before, after, q, "faceUp") # {} =>
                   /\ before.game.deck = <<>>
                   /\ ZoneCards(before, q, "hand") = <<>>
              /\ Lost(before, after, q, "faceDown") # {} =>
                   /\ before.game.deck = <<>>
                   /\ ZoneCards(before, q, "hand") = <<>>
                   /\ ZoneCards(before, q, "faceUp") = <<>>
       /\ (/\ req.code \in DOMAIN rooms
           /\ before.game # NoGame
           /\ req.sid \in DOMAIN before.game.playersState
           /\ req.source # RequiredZone(before, req.sid)) =>
            ~out.reply.ok /\ out.rooms = rooms

\* A face-down card was played and accepted: the deck, the actor's hand
\* before the play and its face-up cards held nothing, and the turn holder
\* now has cards in hand and face-down, so that a request naming faceDown
\* is refused.
C5_Witness ==
  /\ last.req.op = "play:cards"
  /\ last.req.source = "faceDown"
  /\ last.reply.forcedPickup
  /\ last.req.code \in DOMAIN rooms
  /\ rooms[last.req.code].phase = "playing"
  /\ rooms[last.req.code].game.deck = <<>>
  /\ ZoneCards(rooms[last.req.code], last.req.sid, "faceUp") = <<>>
  /\ ZoneCards(rooms[last.req.code], last.req.sid, "faceDown") # <<>>
  /\ ZoneCards(rooms[last.req.code], last.req.sid, "hand") # <<>>

(* C6: after every accepted play:cards or play:pickup, if exactly one       *)
(* member of the room is not in finished and the room has at least two      *)
(* members, phase is ended, winnerId is finished[0] and loserId is that     *)
(* member; otherwise phase stays playing.  With two members, both players   *)
(* of the game and none finished, the game ends in the step in which the    *)
(* actor empties its three zones, the actor winning and the other losing.   *)
C6_EndOfGame ==
  \A req \in PlayCardsNow \cup PlayPickupNow :
    LET out == Outcome(req)
        before == Before(req)
        after == out.rooms[req.code]
    IN (req.code \in DOMAIN rooms /\ out.reply.ok) =>
         /\ IF Len(Unfinished(after)) = 1 /\ Len(after.players) >= 2
            THEN /\ after.phase = "ended"
                 /\ after.game.winnerId = after.game.finished[1]
                 /\ after.game.loserId = Unfinished(after)[1]
            ELSE after.phase = "playing"
         /\ (/\ Len(before.players) = 2
             /\ \A i \in 1..2 : before.players[i].id \in DOMAIN before.game.playersState
             /\ before.game.finished = <<>>
             /\ ~HoldsCards(after, req.sid)) =>
              /\ after.phase = "ended"
              /\ after.game.winnerId = req.sid
              /\ after.game.loserId \in {before.players[i].id : i \in 1..2} \ {req.sid}

\* A game of three has ended: the winner finished first, another player
\* finished with the last play, the third is the loser.
C6_Witness ==
  /\ last.req.op = "play:cards"
  /\ last.req.code \in DOMAIN rooms
  /\ rooms[last.req.code].phase = "ended"
  /\ Len(rooms[last.req.code].players) = 3
  /\ Len(rooms[last.req.code].game.finished) = 2
  /\ rooms[last.req.code].game.winnerId = rooms[last.req.code].game.finished[1]
  /\ rooms[last.req.code].game.finished[2] = last.req.sid
  /\ rooms[last.req.code].game.loserId \notin Range(rooms[last.req.code].game.finished)
  /\ HoldsCards(rooms[last.req.code], rooms[last.req.code].game.loserId)

\* The member that holds the turn once the play itself is resolved, before
\* finished players are passed over: the actor after a burn, else the
\* unfinished member 1 + (number of 8s) steps on, one step on after an
\* illegal play.
TurnAfterPlay(req) ==
  IF ~Legal(req) THEN AtOffset(Unfinished(Before(req)), req.sid, 1)
  ELSE IF Burning(req) THEN req.sid
  ELSE AtOffset(Unfinished(Before(req)), req.sid, 1 + Eights(Chosen(req)))

\* The first member after id in join order, wrapping around, that is not in
\* finished.
FollowerOf(room, id) ==
  LET ids == [i \in 1..Len(room.players) |-> room.players[i].id]
      k == CHOOSE k \in 1..Len(ids) :
             /\ AtOffset(ids, id, k) \notin Range(room.game.finished)
             /\ \A j \in 1..(k - 1) : AtOffset(ids, id, j) \in Range(room.game.finished)
  IN AtOffset(ids, id, k)

(* C7: when, after a play in a room of three or more members, the member    *)
(* holding the turn is finished and the game does not end, the turn goes to *)
(* the first unfinished member that follows that member in join order,      *)
(* wrapping around.                                                         *)
C7_BumpToFollower ==
  \A req \in PlayCardsNow :
    LET after == After(req)
    IN (/\ Validated(req)
        /\ Len(after.players) >= 3
        /\ after.phase = "playing"
        /\ TurnAfterPlay(req) \in Range(after.game.finished)
        /\ Unfinished(after) # <<>>) =>
         after.game.currentPlayerId = FollowerOf(after, TurnAfterPlay(req))

(* C8: a room never rests in phase setup with every PlayerState of its game *)
(* at stage ready.                                                          *)
C8_SetupNeverAllReady ==
  \A code \in DOMAIN rooms :
    (/\ rooms[code].phase = "setup"
     /\ DOMAIN rooms[code].game.playersState # {}) =>
      \E q \in DOMAIN rooms[code].game.playersState :
        rooms[code].game.playersState[q].stage # "ready"

(* C9: for every number n >= 2 of members, an accepted game:start leaves    *)
(* every member with 3 faceDown cards, 6 hand cards, no faceUp card and     *)
(* stage chooseFaceUp, a deck of 52 - 9n cards, empty pile and burned,      *)
(* phase setup and the turn with the first member in join order.            *)
C9_DealNineEach ==
  \A req \in GameStartNow :
    LET out == Outcome(req)
        after == out.rooms[req.code]
    IN out.reply.ok =>
         /\ Len(after.players) >= 2
         /\ \A i \in 1..Len(after.players) :
              /\ after.players[i].id \in DOMAIN after.game.playersState
              /\ Len(ZoneCards(after, after.players[i].id, "faceDown")) = 3
              /\ Len(ZoneCards(after, after.players[i].id, "hand")) = 6
              /\ ZoneCards(after, after.players[i].id, "faceUp") = <<>>
              /\ after.game.playersState[after.players[i].id].stage = "chooseFaceUp"
         /\ Len(after.game.deck) = Len(UnshuffledDeck) - 9 * Len(after.players)
         /\ after.game.pile = <<>>
         /\ after.game.burned = <<>>
         /\ after.phase = "setup"
         /\ after.game.currentPlayerId = after.players[1].id

(* C10: game:start is answered ok only when the requester is the host of    *)
(* the room, the room has at least 2 members and phase is lobby, which is   *)
(* only while the room has no game; every other game:start is answered      *)
(* ok:false and changes nothing.                                            *)
C10_StartGuards ==
  /\ \A req \in GameStartNow :
       LET out == Outcome(req)
       IN /\ out.reply.ok =>
               /\ req.code \in DOMAIN rooms
               /\ Before(req).hostSocketId = req.sid
               /\ Len(Before(req).players) >= 2
               /\ Before(req).phase = "lobby"
               /\ Before(req).game = NoGame
          /\ ~out.reply.ok => out.rooms = rooms
  /\ \A code \in DOMAIN rooms : rooms[code].phase = "lobby" <=> rooms[code].game = NoGame

\* The first host has left a room of three whose game is under way: the new
\* host, with two members in the room, asks to start and is refused.
C10_Witness ==
  /\ last.req.op = "disconnect"
  /\ \E code \in DOMAIN rooms :
       /\ rooms[code].game # NoGame
       /\ rooms[code].phase = "playing"
       /\ rooms[code].hostSocketId # rooms[code].game.currentPlayerId
       /\ rooms[code].hostSocketId \in connected
       /\ last.req.sid \notin {rooms[code].players[i].id : i \in 1..Len(rooms[code].players)}
       /\ last.req.sid \in Range(rooms[code].game.finished)
                            \cup {rooms[code].game.currentPlayerId}
       /\ Len(rooms[code].players) = 2
       /\ \A order \in ShuffleOrders :
            Rejected(ReqGameStart(rooms[code].hostSocketId, code, makeDeck(order)))

\* The setup:setFaceUp requests the connected sockets may send now.
SetFaceUpNow ==
  UNION {SetFaceUpRequests(rooms, sid, code) : sid \in connected, code \in CodesNow}

\* The request names exactly 3 distinct cards of the hand of a player who
\* has not locked in yet.
LockWellFormed(req) ==
  /\ req.code \in DOMAIN rooms
  /\ Before(req).game # NoGame
  /\ req.sid \in DOMAIN Before(req).game.playersState
  /\ Before(req).game.playersState[req.sid].stage = "chooseFaceUp"
  /\ Len(req.chosenCardIds) = 3
  /\ Cardinality(Range(req.chosenCardIds)) = 3
  /\ Range(req.chosenCardIds) \subseteq Range(ZoneCards(Before(req), req.sid, "hand"))

(* C11: setup:setFaceUp is answered ok only for a player in stage           *)
(* chooseFaceUp who names exactly 3 distinct cards of its hand; every other *)
(* request is answered ok:false and changes nothing.  After an accepted     *)
(* request the player has exactly 3 faceUp and 3 hand cards, and the same   *)
(* request sent again is refused.                                           *)
C11_LockInThreeDistinct ==
  \A req \in SetFaceUpNow :
    LET out == Outcome(req)
    IN /\ out.reply.ok =>
            /\ LockWellFormed(req)
            /\ Len(ZoneCards(out.rooms[req.code], req.sid, "faceUp")) = 3
            /\ Len(ZoneCards(out.rooms[req.code], req.sid, "hand")) = 3
            /\ ~Dispatch(out.rooms, req).reply.ok
       /\ ~out.reply.ok => out.rooms = rooms

\* The members of the room that have no PlayerState in its game: the
\* sockets that joined after game:start.
PassiveMembers(room) ==
  {room.players[i].id : i \in 1..Len(room.players)} \ DOMAIN room.game.playersState

(* C12: a socket that joined a room after game:start has no PlayerState and *)
(* never holds the turn: in every room with a game, currentPlayerId is not  *)
(* the id of a member without a PlayerState.                                *)
C12_PassiveNeverOnTurn ==
  \A code \in DOMAIN rooms :
    rooms[code].game # NoGame =>
      rooms[code].game.currentPlayerId \notin PassiveMembers(rooms[code])

\* The room:join requests the connected sockets may send now.
RoomJoinNow ==
  {ReqRoomJoin(sid, code, name) :
     sid \in connected, code \in CodesNow, name \in NameInputs}

\* The ids of the members of the room, in join order.
MemberIds(room) == [i \in 1..Len(room.players) |-> room.players[i].id]

(* C13: no room ever lists the same socket id twice, and a room:join by a   *)
(* socket that is already a member of the room leaves the registry, and so  *)
(* the order and the recorded names of the players list, unchanged.         *)
C13_JoinIdempotent ==
  /\ \A code \in DOMAIN rooms :
       \A i, j \in 1..Len(rooms[code].players) :
         rooms[code].players[i].id = rooms[code].players[j].id => i = j
  /\ \A req \in RoomJoinNow :
       (req.code \in DOMAIN rooms /\ req.sid \in Range(MemberIds(Before(req)))) =>
         Outcome(req).rooms = rooms

\* A member of a room of two has just sent room:join again, under another
\* name than the one the room records for it, and was answered ok.
C13_Witness ==
  /\ last.req.op = "room:join"
  /\ last.reply.ok
  /\ last.req.code \in DOMAIN rooms
  /\ Len(rooms[last.req.code].players) = 2
  /\ \E i \in 1..2 :
       /\ rooms[last.req.code].players[i].id = last.req.sid
       /\ rooms[last.req.code].players[i].name # SafeName(last.req.name)

(* C14: a play:pickup by the player holding the turn in phase playing is    *)
(* answered ok whatever the pile and the zones hold: the actor's hand       *)
(* becomes its old hand followed by the whole pile, the pile becomes empty, *)
(* the turn goes to the unfinished member one step on, and deck, burned,    *)
(* the actor's faceUp and faceDown and every other PlayerState are          *)
(* unchanged.                                                               *)
C14_PickupTakesPile ==
  \A req \in PlayPickupNow :
    HoldsTurn(req) =>
      LET out == Outcome(req)
          before == Before(req)
          after == out.rooms[req.code]
      IN /\ out.reply.ok
         /\ ZoneCards(after, req.sid, "hand")
              = ZoneCards(before, req.sid, "hand") \o before.game.pile
         /\ after.game.pile = <<>>
         /\ after.game.currentPlayerId = AtOffset(Unfinished(before), req.sid, 1)
         /\ after.game.deck = before.game.deck
         /\ after.game.burned = before.game.burned
         /\ ZoneCards(after, req.sid, "faceUp") = ZoneCards(before, req.sid, "faceUp")
         /\ ZoneCards(after, req.sid, "faceDown") = ZoneCards(before, req.sid, "faceDown")
         /\ DOMAIN after.game.playersState = DOMAIN before.game.playersState
         /\ \A q \in DOMAIN before.game.playersState \ {req.sid} :
              after.game.playersState[q] = before.game.playersState[q]

\* A player with no face-up card left has just picked up: the pile is
\* empty, the cards are in its hand and the turn is with someone else.
C14_Witness ==
  /\ last.req.op = "play:pickup"
  /\ last.req.code \in DOMAIN rooms
  /\ rooms[last.req.code].phase = "playing"
  /\ rooms[last.req.code].game.pile = <<>>
  /\ rooms[last.req.code].game.deck = <<>>
  /\ last.req.sid \in DOMAIN rooms[last.req.code].game.playersState
  /\ ZoneCards(rooms[last.req.code], last.req.sid, "hand") # <<>>
  /\ ZoneCards(rooms[last.req.code], last.req.sid, "faceUp") = <<>>
  /\ rooms[last.req.code].game.currentPlayerId # last.req.sid

\* The room:create requests the connected sockets may send now.
RoomCreateNow ==
  {ReqRoomCreate(sid, code, name) :
     sid \in connected, code \in Codes \ DOMAIN rooms, name \in NameInputs}

\* The members of the room other than sid, in join order.
Others(room, sid) == SelectSeq(MemberIds(room), LAMBDA id : id # sid)

(* C15: every room of the registry has at least one player and its          *)
(* hostSocketId is the id of one of them.  The creator of a room is its     *)
(* host; a join leaves the host as it is; when the host disconnects the     *)
(* first remaining player in join order becomes host, when another player   *)
(* disconnects the host stays; a room whose last player disconnects leaves  *)
(* the registry and a join naming its code is then answered ok:false.       *)
C15_HostIsMember ==
  /\ \A code \in DOMAIN rooms :
       /\ Len(rooms[code].players) >= 1
       /\ rooms[code].hostSocketId \in Range(MemberIds(rooms[code]))
  /\ \A req \in RoomCreateNow :
       Outcome(req).reply.ok =>
         /\ After(req).hostSocketId = req.sid
         /\ MemberIds(After(req)) = <<req.sid>>
  /\ \A req \in RoomJoinNow :
       req.code \in DOMAIN rooms => After(req).hostSocketId = Before(req).hostSocketId
  /\ \A sid \in connected :
       LET after == Disconnect(rooms, sid).rooms
       IN \A code \in DOMAIN rooms :
            IF sid \notin Range(MemberIds(rooms[code]))
            THEN code \in DOMAIN after /\ after[code] = rooms[code]
            ELSE IF Others(rooms[code], sid) = <<>>
            THEN /\ code \notin DOMAIN after
                 /\ \A name \in NameInputs, q \in connected :
                      ~Dispatch(after, ReqRoomJoin(q, code, name)).reply.ok
            ELSE /\ code \in DOMAIN after
                 /\ MemberIds(after[code]) = Others(rooms[code], sid)
                 /\ after[code].hostSocketId =
                      IF rooms[code].hostSocketId = sid
                      THEN Others(rooms[code], sid)[1]
                      ELSE rooms[code].hostSocketId

\* The socket that started the game of a room, its first player and host,
\* has just disconnected; the room lives on with another member as host.
C15_Witness ==
  /\ last.req.op = "disconnect"
  /\ \E code \in DOMAIN rooms :
       /\ rooms[code].phase = "setup"
       /\ rooms[code].game.currentPlayerId = last.req.sid
       /\ last.req.sid \notin Range(MemberIds(rooms[code]))
       /\ rooms[code].hostSocketId = rooms[code].players[1].id

\* Some play:cards request of the current state is refused with this error.
RefusedWith(msg) ==
  \E req \in PlayCardsNow :
    /\ HoldsTurn(req)
    /\ ~Outcome(req).reply.ok
    /\ Outcome(req).reply.error = msg

(* C16: every play:cards and every setup:setFaceUp request that is answered *)
(* ok:false leaves the registry, and so every zone of every player, as it   *)
(* was: no card is removed or moved by a refused request.                   *)
C16_RefusedChangesNothing ==
  \A req \in PlayCardsNow \cup SetFaceUpNow :
    LET out == Outcome(req)
    IN ~out.reply.ok => out.rooms = rooms

\* The player holding the turn must play its face-up cards, and requests of
\* each kind are refused: no card selected, a card that is not in the zone,
\* cards of two ranks, another zone than the required one.
C16_Witness ==
  /\ \E code \in DOMAIN rooms :
       /\ rooms[code].phase = "playing"
       /\ rooms[code].game.currentPlayerId \in DOMAIN rooms[code].game.playersState
       /\ RequiredZone(rooms[code], rooms[code].game.currentPlayerId) = "faceUp"
  /\ RefusedWith("Select a card")
  /\ RefusedWith("Invalid selection")
  /\ RefusedWith("You can only play multiple cards of the same rank")
  /\ RefusedWith("You must play from faceUp")

\* Codes makeRoomCode may return now: codes that no room of the registry has.
UnusedCodes == (1..(Cardinality(DOMAIN rooms) + 1)) \ DOMAIN rooms

\* The requests that name one room code, as the connected sockets may send
\* them now.
RoomRequestsNow ==
  {ReqRoomCreate(sid, code, name) :
     sid \in connected, code \in UnusedCodes, name \in NameInputs}
  \cup RoomJoinNow \cup GameStartNow \cup SetFaceUpNow \cup PlayCardsNow
  \cup PlayPickupNow

(* C17: a create, join, start, setFaceUp, play:cards or play:pickup request *)
(* leaves every room other than the one it names as it was, and adds or     *)
(* removes no other room, also when its socket is a member of several       *)
(* rooms; a disconnect changes every room that holds the socket and no      *)
(* other room.                                                              *)
C17_RoomsIndependent ==
  /\ \A req \in RoomRequestsNow :
       LET out == Outcome(req)
       IN /\ DOMAIN out.rooms \ {req.code} = DOMAIN rooms \ {req.code}
          /\ \A code \in DOMAIN rooms \ {req.code} : out.rooms[code] = rooms[code]
  /\ \A sid \in connected :
       LET after == Disconnect(rooms, sid).rooms
       IN /\ DOMAIN after \subseteq DOMAIN rooms
          /\ \A code \in DOMAIN rooms :
               IF sid \in Range(MemberIds(rooms[code]))
               THEN code \notin DOMAIN after \/ after[code] # rooms[code]
               ELSE code \in DOMAIN after /\ after[code] = rooms[code]

\* A socket that plays in two rooms has just played a card in one of them;
\* the game of the other room is under way with cards on its pile.
C17_Witness ==
  /\ last.req.op = "play:cards"
  /\ Cardinality(DOMAIN rooms) = 2
  /\ \A code \in DOMAIN rooms :
       /\ rooms[code].phase = "playing"
       /\ last.req.sid \in DOMAIN rooms[code].game.playersState
  /\ \E code \in DOMAIN rooms \ {last.req.code} : rooms[code].game.pile # <<>>
  /\ rooms[last.req.code].game.pile # <<>>

\* The cards of the pile that are not 3s, bottom first.
WithoutThrees(cards) == SelectSeq(cards, LAMBDA c : CardRank(c) # "3")

\* The rank of the last card of the pile that is not a 3, none without one.
LastNon3Rank(cards) ==
  IF WithoutThrees(cards) = <<>> THEN NoRank
  ELSE CardRank(WithoutThrees(cards)[Len(WithoutThrees(cards))])

\* The value of a rank: A 14, K 13, Q 12, J 11, the numerals at face value.
ValueOf(r) == IF r = "A" THEN 14 ELSE RankIndex(r)

\* The reference rule of playability.
Playable(r, cards) ==
  \/ r \in {"2", "3", "10"}
  \/ WithoutThrees(cards) = <<>>
  \/ r = LastNon3Rank(cards)
  \/ /\ WithoutThrees(cards) # <<>>
     /\ r \notin {"2", "3", "10"}
     /\ r # LastNon3Rank(cards)
     /\ IF LastNon3Rank(cards) = "7"
        THEN ValueOf(r) < 7
        ELSE ValueOf(r) >= ValueOf(LastNon3Rank(cards))

(* C18: for every rank and every pile, canPlayOnPile(rank, pile) equals the *)
(* reference rule: true for 2, 3 and 10; true on a pile without a non-3     *)
(* card; true for the rank of the effective top; on an effective top 7 true *)
(* exactly for the values below 7; otherwise true exactly for the values at *)
(* least that of the effective top.                                         *)
C18_CanPlayMatchesRule ==
  probe.fn = "canPlayOnPile" => (probe.result <=> Playable(probe.rank, argPile))

\* An 8 has been refused on a pile whose effective top is a 7 lying under
\* a 3.
C18_Witness ==
  /\ probe.fn = "canPlayOnPile"
  /\ probe.rank = "8"
  /\ ~probe.result
  /\ Len(argPile) >= 2
  /\ CardRank(argPile[Len(argPile)]) = "3"
  /\ LastNon3Rank(argPile) = "7"

(* C19: for every pile, lastFourNon3Same(pile) is true exactly when the     *)
(* pile holds at least four cards that are not 3s and the four of them      *)
(* nearest the top have one rank, whatever number of 3s lie between or      *)
(* above them.                                                              *)
C19_FourNon3MatchesRule ==
  probe.fn = "lastFourNon3Same" => (probe.result <=> FourOfAKind(argPile))

\* The pile 7 3 7 3 7 3 7 has been found to burn.
C19_Witness ==
  /\ probe.fn = "lastFourNon3Same"
  /\ probe.result
  /\ [i \in 1..Len(argPile) |-> CardRank(argPile[i])]
       = <<"7", "3", "7", "3", "7", "3", "7">>

(* C20: for every pile, pileEffectiveTopRank(pile) is the rank of the last  *)
(* card of the pile that is not a 3, and none exactly when the pile is      *)
(* empty or holds only 3s; the effectiveTop field of the public view of a   *)
(* game is that value for the pile of the game.                             *)
C20_EffectiveTopIsLastNon3 ==
  /\ probe.fn = "pileEffectiveTopRank" =>
       /\ probe.result = LastNon3Rank(argPile)
       /\ probe.result = NoRank <=> \A i \in 1..Len(argPile) : CardRank(argPile[i]) = "3"
  /\ probe.fn = "gamePublicState" =>
       /\ probe.result.effectiveTop = LastNon3Rank(rooms[probe.code].game.pile)
       /\ probe.result.pile = rooms[probe.code].game.pile
  /\ \A code \in DOMAIN rooms :
       rooms[code].game # NoGame =>
         gamePublicState(rooms[code]).effectiveTop = LastNon3Rank(rooms[code].game.pile)

\* The public view of a game whose pile has a 3 on top of another card has
\* been built.
C20_Witness ==
  /\ probe.fn = "gamePublicState"
  /\ probe.result.pileCount >= 2
  /\ CardRank(probe.result.pile[probe.result.pileCount]) = "3"
  /\ probe.result.effectiveTop # NoRank

\* The cards no other player may see: the deck, the hands and the
\* face-down cards.
HiddenZones(room) ==
  {room.game.deck}
  \cup {room.game.playersState[q].hand : q \in DOMAIN room.game.playersState}
  \cup {room.game.playersState[q].faceDown : q \in DOMAIN room.game.playersState}

\* The first card of each hidden zone that holds one.
HiddenFronts(room) == {z[1] : z \in {y \in HiddenZones(room) : y # <<>>}}

\* The cards of zone z with c and d exchanged.
Exchange(z, c, d) ==
  [i \in 1..Len(z) |-> IF z[i] = c THEN d ELSE IF z[i] = d THEN c ELSE z[i]]

\* The room with the hidden cards c and d exchanged: every zone keeps its
\* size, and nothing but the deck, the hands and the face-down cards
\* differs.
WithExchanged(room, c, d) ==
  [room EXCEPT
     !.game.deck = Exchange(@, c, d),
     !.game.playersState =
        [q \in DOMAIN @ |->
           [@[q] EXCEPT !.hand = Exchange(@, c, d), !.faceDown = Exchange(@, c, d)]]]

\* The messages of emitState that go to the whole room.
Broadcast(msgs) == SelectSeq(msgs, LAMBDA m : m.to.kind = "room")

(* C21: the room:update and game:state messages of a room are the same for  *)
(* two states of the room that differ only in which cards lie in the hands, *)
(* the face-down slots and the deck; a message that carries a player's hand *)
(* and face-down cards is a game:private message addressed to that player's *)
(* socket alone.                                                            *)
C21_ViewsHideCards ==
  probe.fn = "emitState" =>
    /\ rooms[probe.code].game # NoGame =>
         \A c, d \in HiddenFronts(rooms[probe.code]) :
           Broadcast(emitState(WithExchanged(rooms[probe.code], c, d)))
             = Broadcast(probe.result)
    /\ \A i \in 1..Len(probe.result) :
         /\ probe.result[i].to.kind = "room" =>
              probe.result[i].event \in {"room:update", "game:state"}
         /\ probe.result[i].event = "game:private" =>
              /\ probe.result[i].to = ToSocket(probe.result[i].payload.you.id)
              /\ probe.result[i].payload.you
                   = rooms[probe.code].game.playersState[probe.result[i].payload.you.id]

\* The views of a game under way have been sent: the deck and two hands of
\* three cards or more are hidden, and each of the three players gets its
\* private message.
C21_Witness ==
  /\ probe.fn = "emitState"
  /\ rooms[probe.code].phase = "playing"
  /\ rooms[probe.code].game.deck # <<>>
  /\ Cardinality(HiddenFronts(rooms[probe.code])) >= 5
  /\ Len(probe.result) = 5
  /\ Len(Broadcast(probe.result)) = 2

\* The number of cards a hand of n cards draws from a deck of m cards.
DrawCount(n, m) == IF n >= 3 THEN 0 ELSE IF 3 - n <= m THEN 3 - n ELSE m

(* C22: after every accepted legal play from the hand, burning or not, the  *)
(* actor's hand is what the play left of it followed by the first cards of  *)
(* the deck, in deck order, as many as bring it to 3 or as the deck holds,  *)
(* none when it already holds 3; so the hand holds at least 3 cards or the  *)
(* deck is empty.  A forced pickup, a play:pickup and a play from faceUp or *)
(* faceDown leave the deck as it was.                                       *)
C22_DrawUpToThree ==
  /\ \A req \in PlayCardsNow :
       Validated(req) =>
         LET before == Before(req)
             after == After(req)
             left == Remaining(req, "hand")
             k == DrawCount(Len(left), Len(before.game.deck))
         IN IF Legal(req) /\ req.source = "hand"
            THEN /\ ZoneCards(after, req.sid, "hand") = left \o SubSeq(before.game.deck, 1, k)
                 /\ after.game.deck = SubSeq(before.game.deck, k + 1, Len(before.game.deck))
                 /\ Len(ZoneCards(after, req.sid, "hand")) >= 3 \/ after.game.deck = <<>>
            ELSE after.game.deck = before.game.deck
  /\ \A req \in PlayPickupNow :
       HoldsTurn(req) => After(req).game.deck = Before(req).game.deck

\* Two cards played from the hand have just burned the pile while the deck
\* still holds cards: the hand is back at three.
C22_Witness ==
  /\ last.req.op = "play:cards"
  /\ last.req.source = "hand"
  /\ Len(last.req.cardIds) = 2
  /\ last.reply.burned
  /\ rooms[last.req.code].game.deck # <<>>
  /\ Len(ZoneCards(rooms[last.req.code], last.req.sid, "hand")) = 3

\* The place of a phase in lobby, setup, playing, ended.
PhaseOrder(ph) ==
  CASE ph = "lobby" -> 0 [] ph = "setup" -> 1 [] ph = "playing" -> 2 [] ph = "ended" -> 3

\* One step of a room that stays in the registry: the phase stays or moves
\* to the next one; an ended room stays ended, and its game changes only by
\* a disconnect.
PhaseStep ==
  \A code \in DOMAIN rooms \cap DOMAIN rooms' :
    /\ PhaseOrder(rooms'[code].phase) \in
         {PhaseOrder(rooms[code].phase), PhaseOrder(rooms[code].phase) + 1}
    /\ rooms[code].phase = "ended" =>
         /\ rooms'[code].phase = "ended"
         /\ connected' = connected => rooms'[code].game = rooms[code].game

\* In an ended room every play:cards and play:pickup is refused.
EndedRefusesPlays ==
  \A req \in PlayCardsNow \cup PlayPickupNow :
    (req.code \in DOMAIN rooms /\ Before(req).phase = "ended") => Rejected(req)

(* C23: the phase of a room only moves along lobby, setup, playing, ended,  *)
(* one phase at a time and never back; an ended room stays ended, refuses   *)
(* every play:cards and play:pickup, and its deck, pile, burned, zones,     *)
(* finished, winnerId and loserId are changed by no request.                *)
C23_PhaseForwardOnly == []EndedRefusesPlays /\ [][PhaseStep]_vars

\* A play explored from a recorded state has just ended the game.
C23_Witness ==
  /\ last.req.op = "play:cards"
  /\ budget < MaxPlays
  /\ rooms[last.req.code].phase = "ended"
  /\ rooms[last.req.code].game.winnerId # Null

\* s is an initial part of t.
IsPrefix(s, t) == Len(s) <= Len(t) /\ SubSeq(t, 1, Len(s)) = s

\* finished names no player twice, and every player it names that still has
\* a PlayerState holds no card.
FinishedHoldNothing ==
  \A code \in DOMAIN rooms :
    rooms[code].game # NoGame =>
      /\ \A i, j \in 1..Len(rooms[code].game.finished) :
           rooms[code].game.finished[i] = rooms[code].game.finished[j] => i = j
      /\ \A q \in Range(rooms[code].game.finished) \cap DOMAIN rooms[code].game.playersState :
           ~HoldsCards(rooms[code], q)

\* One step of a game: finished grows at its end only, and a player whose
\* last card leaves in the step is in finished after it.
FinishedStep ==
  \A code \in DOMAIN rooms \cap DOMAIN rooms' :
    (rooms[code].game # NoGame /\ rooms'[code].game # NoGame) =>
      /\ IsPrefix(rooms[code].game.finished, rooms'[code].game.finished)
      /\ \A q \in DOMAIN rooms[code].game.playersState
                    \cap DOMAIN rooms'[code].game.playersState :
           (HoldsCards(rooms[code], q) /\ ~HoldsCards(rooms'[code], q)) =>
             q \in Range(rooms'[code].game.finished)

(* C24: finished is append-only and names no player twice: every step       *)
(* leaves the previous list as a prefix of the new one; a player is in      *)
(* finished after the step in which its last card leaves its zones; and a   *)
(* player in finished holds no card in any later state.                     *)
C24_FinishedAppendOnly == []FinishedHoldNothing /\ [][FinishedStep]_vars

\* A player has just played its last card in an explored step and is in
\* finished, while the game goes on.
C24_Witness ==
  /\ last.req.op = "play:cards"
  /\ budget < MaxPlays
  /\ rooms[last.req.code].phase = "playing"
  /\ last.req.sid \in Range(rooms[last.req.code].game.finished)
  /\ last.req.sid \in DOMAIN rooms[last.req.code].game.playersState

\* The sequence s without its entry at the 0-based position i.
WithoutSlot(s, i) == [k \in 1..(Len(s) - 1) |-> IF k <= i THEN s[k] ELSE s[k + 1]]

\* t is s, or s without one of its entries.
SameOrOneLess(s, t) == t = s \/ \E i \in 0..(Len(s) - 1) : t = WithoutSlot(s, i)

\* One step of a game: every player's faceDown sequence stays as it is or
\* loses one card, the others keeping their order.
FaceDownStep ==
  \A code \in DOMAIN rooms \cap DOMAIN rooms' :
    (rooms[code].game # NoGame /\ rooms'[code].game # NoGame) =>
      \A q \in DOMAIN rooms[code].game.playersState
                 \cap DOMAIN rooms'[code].game.playersState :
        SameOrOneLess(ZoneCards(rooms[code], q, "faceDown"),
                      ZoneCards(rooms'[code], q, "faceDown"))

\* A face-down play by the player who must play face-down: an index of an
\* occupied slot removes the card of that slot and no other, any other
\* index is refused without change.
FaceDownPlays ==
  \A req \in PlayCardsNow :
    (HoldsTurn(req) /\ req.source = "faceDown"
       /\ RequiredZone(Before(req), req.sid) = "faceDown") =>
      IF WellSelected(req)
      THEN /\ Outcome(req).reply.ok
           /\ ZoneCards(After(req), req.sid, "faceDown")
                = WithoutSlot(ZoneCards(Before(req), req.sid, "faceDown"),
                              req.faceDownIndex[1])
      ELSE Rejected(req)

(* C25: after the deal a player's faceDown sequence never grows and is      *)
(* never reordered: an accepted face-down play with index i removes the     *)
(* card at position i and keeps the order of the others; a face-down play   *)
(* whose index is no occupied position is refused with no change.           *)
C25_FaceDownOnlyShrinks == []FaceDownPlays /\ [][FaceDownStep]_vars

\* The first of two or more face-down cards has just been played in an
\* explored step; the others are still there.
C25_Witness ==
  /\ last.req.op = "play:cards"
  /\ last.req.source = "faceDown"
  /\ last.req.faceDownIndex = <<0>>
  /\ budget < MaxPlays
  /\ last.req.sid \in DOMAIN rooms[last.req.code].game.playersState
  /\ ZoneCards(rooms[last.req.code], last.req.sid, "faceDown") # <<>>

\* Where the cards of a game lie: one slot per card held, in the deck, the
\* pile, the burned pile or a zone of a player.
Slots(room) ==
  {<<"deck", Null, k>> : k \in 1..Len(room.game.deck)}
  \cup {<<"pile", Null, k>> : k \in 1..Len(room.game.pile)}
  \cup {<<"burned", Null, k>> : k \in 1..Len(room.game.burned)}
  \cup UNION {{<<zone, q, k>> : k \in 1..Len(ZoneCards(room, q, zone))} :
                q \in DOMAIN room.game.playersState,
                zone \in {"hand", "faceUp", "faceDown"}}

\* The cards in play: in the deck, on the pile or in a zone of a player.
InPlay(room) ==
  Range(room.game.deck) \cup Range(room.game.pile)
  \cup UNION {Range(ZoneCards(room, q, zone)) :
                q \in DOMAIN room.game.playersState,
                zone \in {"hand", "faceUp", "faceDown"}}

\* Every one of the 52 cards lies in exactly one slot.
Conserved(room) ==
  /\ InPlay(room) \cup Range(room.game.burned) = 1..Len(UnshuffledDeck)
  /\ Cardinality(Slots(room)) = Len(UnshuffledDeck)

\* s is the end of t.
IsSuffix(s, t) == Len(s) <= Len(t) /\ SubSeq(t, Len(t) - Len(s) + 1, Len(t)) = s

\* A step other than a disconnect: a game that starts holds every card
\* once; a game that goes on holds the same cards in as many slots, its
\* deck only loses cards from the front, its burned pile only gains cards
\* at the end, and no burned card is in play.
ConservingStep ==
  last'.req.op # "disconnect" =>
    \A code \in DOMAIN rooms' :
      rooms'[code].game # NoGame =>
        IF code \in DOMAIN rooms /\ rooms[code].game # NoGame
        THEN /\ InPlay(rooms'[code]) \cup Range(rooms'[code].game.burned)
                  = InPlay(rooms[code]) \cup Range(rooms[code].game.burned)
             /\ Cardinality(Slots(rooms'[code])) = Cardinality(Slots(rooms[code]))
             /\ IsSuffix(rooms'[code].game.deck, rooms[code].game.deck)
             /\ IsPrefix(rooms[code].game.burned, rooms'[code].game.burned)
        ELSE Conserved(rooms'[code])

\* No card lies in two slots, and no burned card is in play.
NoCardTwice ==
  \A code \in DOMAIN rooms :
    rooms[code].game # NoGame =>
      /\ Cardinality(Slots(rooms[code]))
           = Cardinality(InPlay(rooms[code]) \cup Range(rooms[code].game.burned))
      /\ InPlay(rooms[code]) \cap Range(rooms[code].game.burned) = {}

(* C26: in a game without a disconnect the deck, the pile, the burned pile  *)
(* and the zones of the players together hold each of the 52 cards exactly  *)
(* once from game:start on; the deck never grows, burned never loses a      *)
(* card, and a burned card never comes back into the deck, the pile or a    *)
(* zone.                                                                    *)
C26_CardsConserved == []NoCardTwice /\ [][ConservingStep]_vars

\* A play has just burned the pile in a game that still holds all 52 cards.
C26_Witness ==
  /\ last.req.op = "play:cards"
  /\ last.reply.ok
  /\ budget < MaxPlays
  /\ last.req.code \in DOMAIN rooms
  /\ rooms[last.req.code].game # NoGame
  /\ rooms[last.req.code].game.burned # <<>>
  /\ rooms[last.req.code].game.pile = <<>>
  /\ Conserved(rooms[last.req.code])

\* The room has a game among two or more members, each with a PlayerState,
\* two or more of them have not finished while the game is not ended, and
\* the turn is with a member that has not finished.
Settled(room) ==
  /\ room.game # NoGame
  /\ Len(room.players) >= 2
  /\ (room.phase # "ended" => Len(ActiveIds(room)) >= 2)
  /\ Range(MemberIds(room)) = DOMAIN room.game.playersState
  /\ Range(room.game.finished) \subseteq Range(MemberIds(room))
  /\ room.game.currentPlayerId \in Range(MemberIds(room)) \ Range(room.game.finished)

\* In a settled room that plays, the play:pickup of the turn holder is
\* accepted.
TurnHolderCanPickUp ==
  \A code \in DOMAIN rooms :
    (Settled(rooms[code]) /\ rooms[code].phase = "playing") =>
      Outcome(ReqPlayPickup(rooms[code].game.currentPlayerId, code)).reply.ok

\* A step that starts a game leaves the room settled, and a step that
\* leaves the members of a settled room as they are leaves it settled.
SettledStep ==
  \A code \in DOMAIN rooms \cap DOMAIN rooms' :
    /\ (rooms[code].game = NoGame /\ rooms'[code].game # NoGame) =>
         Settled(rooms'[code])
    /\ (Settled(rooms[code]) /\ MemberIds(rooms'[code]) = MemberIds(rooms[code])) =>
         Settled(rooms'[code])

(* C27: with the membership of the room fixed since game:start, in every   *)
(* state with phase playing currentPlayerId names a member of the room     *)
(* that has a PlayerState and is not in finished, and the play:pickup of   *)
(* that player is accepted: the game is never stuck.                       *)
C27_TurnHolderCanAct == []TurnHolderCanPickUp /\ [][SettledStep]_vars

\* A player has just finished in a settled room whose game goes on, and
\* the turn is with another player.
C27_Witness ==
  /\ last.req.op = "play:cards"
  /\ budget < MaxPlays
  /\ last.req.code \in DOMAIN rooms
  /\ rooms[last.req.code].phase = "playing"
  /\ Settled(rooms[last.req.code])
  /\ last.req.sid \in Range(rooms[last.req.code].game.finished)
  /\ rooms[last.req.code].game.currentPlayerId # last.req.sid

\* The turn of a room that plays is with a member that has a PlayerState.
TurnWithPlayer(room) ==
  /\ room.game.currentPlayerId \in Range(MemberIds(room))
  /\ room.game.currentPlayerId \in DOMAIN room.game.playersState

(* C28: whenever a socket disconnects from a room that plays and whose turn *)
(* is with a member that has a PlayerState, the turn of the room, if it     *)
(* still exists, is afterwards again with a member that has a PlayerState:  *)
(* when the turn holder disconnects the turn passes to a remaining player.  *)
C28_TurnSurvivesDisconnect ==
  [][\A code \in DOMAIN rooms \cap DOMAIN rooms' :
       (last'.req.op = "disconnect"
          /\ rooms[code].game # NoGame /\ rooms[code].phase = "playing"
          /\ TurnWithPlayer(rooms[code])) =>
         TurnWithPlayer(rooms'[code])]_vars

(* C29: in every state with phase playing, while the deck holds a card     *)
(* every player's hand holds at least 3 cards; so the zone the turn holder *)
(* must play from is a hand that is not empty, and no player is in         *)
(* finished.                                                               *)
C29_HandsFullWhileDeck ==
  \A code \in DOMAIN rooms :
    (rooms[code].game # NoGame /\ rooms[code].phase = "playing"
       /\ rooms[code].game.deck # <<>>) =>
      /\ \A q \in DOMAIN rooms[code].game.playersState :
           /\ Len(ZoneCards(rooms[code], q, "hand")) >= HandTarget
           /\ playerZoneToUse(rooms[code], q) = "hand"
      /\ rooms[code].game.finished = <<>>

\* A player has just played from the hand and drawn back to three cards,
\* and the deck still holds cards.
C29_Witness ==
  /\ last.req.op = "play:cards"
  /\ last.req.source = "hand"
  /\ budget < MaxPlays
  /\ last.req.code \in DOMAIN rooms
  /\ rooms[last.req.code].phase = "playing"
  /\ rooms[last.req.code].game.deck # <<>>
  /\ last.req.sid \in DOMAIN rooms[last.req.code].game.playersState
  /\ Len(ZoneCards(rooms[last.req.code], last.req.sid, "hand")) = HandTarget
  /\ Cardinality(DOMAIN rooms[last.req.code].game.playersState) <= 5

(* C30: in every state the pile of a game holds no card of rank 10 and its  *)
(* last four cards other than 3s are not of one rank: a play that puts a 10 *)
(* on the pile or completes four equal cards, also across the plays of      *)
(* several players and with 3s in between, empties the pile into burned in  *)
(* the same step.                                                           *)
C30_PileNeverBurnable ==
  \A code \in DOMAIN rooms :
    rooms[code].game # NoGame =>
      /\ \A k \in 1..Len(rooms[code].game.pile) :
           CardRank(rooms[code].game.pile[k]) # "10"
      /\ ~lastFourNon3Same(rooms[code].game.pile)

\* A play of fewer than four cards, none of them a 10, has just completed
\* four equal cards on the pile, and the pile went to burned.
C30_Witness ==
  /\ last.req.op = "play:cards"
  /\ last.reply.burned
  /\ budget < MaxPlays
  /\ last.req.source = "hand"
  /\ Len(last.req.cardIds) < 4
  /\ \A k \in 1..Len(last.req.cardIds) : CardRank(last.req.cardIds[k]) # "10"
  /\ last.req.code \in DOMAIN rooms
  /\ rooms[last.req.code].game.pile = <<>>
  /\ rooms[last.req.code].game.burned # <<>>

\* Every card of the pile is playable, per canPlayOnPile, on the cards
\* below it.
LegalStack ==
  \A code \in DOMAIN rooms :
    rooms[code].game # NoGame =>
      \A j \in 1..Len(rooms[code].game.pile) :
        canPlayOnPile(CardRank(rooms[code].game.pile[j]),
                      SubSeq(rooms[code].game.pile, 1, j - 1))

\* A play:cards request leaves the pile as it is, empties it, or appends the
\* cards it plays; an illegal play empties it; cards are appended only by a
\* validated legal play, they are the cards chosen, of one rank, from the
\* zone the actor must play from.
PlaysOntoPile ==
  \A req \in PlayCardsNow :
    (req.code \in DOMAIN rooms /\ Before(req).game # NoGame) =>
      /\ \/ After(req).game.pile = Before(req).game.pile
         \/ After(req).game.pile = <<>>
         \/ /\ Validated(req)
            /\ Legal(req)
            /\ After(req).game.pile = Before(req).game.pile \o Chosen(req)
            /\ \A c \in Range(Chosen(req)) :
                 /\ CardRank(c) = CardRank(Chosen(req)[1])
                 /\ c \in Range(ZoneCards(Before(req), req.sid,
                                          RequiredZone(Before(req), req.sid)))
      /\ (Validated(req) /\ ~Legal(req)) =>
           /\ After(req).game.pile = <<>>
           /\ After(req).game.burned = Before(req).game.burned
      /\ (Validated(req) /\ Legal(req) /\ ~Burning(req)) =>
           After(req).game.pile = Before(req).game.pile \o Chosen(req)

\* One step: only a play:cards puts cards on a pile, on top of those there.
PileStep ==
  \A code \in DOMAIN rooms \cap DOMAIN rooms' :
    (rooms[code].game # NoGame /\ rooms'[code].game # NoGame) =>
      \/ rooms'[code].game.pile = rooms[code].game.pile
      \/ rooms'[code].game.pile = <<>>
      \/ /\ last'.req.op = "play:cards"
         /\ last'.req.code = code
         /\ IsPrefix(rooms[code].game.pile, rooms'[code].game.pile)

(* C31: in every state the pile is a legal stack: the rank of each of its  *)
(* cards is playable, per canPlayOnPile, on the pile cards below it; no    *)
(* card reaches the pile through an illegal play, and the cards one play   *)
(* appends share one rank and come from the zone the actor had to play     *)
(* from.                                                                   *)
C31_PileIsLegalStack == [](LegalStack /\ PlaysOntoPile) /\ [][PileStep]_vars

\* A play of two or more cards has just been laid on a pile that was not
\* empty, under a 7 rule or not, and stays there.
C31_Witness ==
  /\ last.req.op = "play:cards"
  /\ budget < MaxPlays
  /\ Len(last.req.cardIds) >= 2
  /\ last.req.code \in DOMAIN rooms
  /\ rooms[last.req.code].game # NoGame
  /\ Len(rooms[last.req.code].game.pile) > Len(last.req.cardIds)
  /\ rooms[last.req.code].game.pile[Len(rooms[last.req.code].game.pile)]
       = last.req.cardIds[Len(last.req.cardIds)]

(* C32: in every state winnerId and loserId are both null while the phase  *)
(* is lobby, setup or playing and both name a socket when it is ended; in  *)
(* phase ended winnerId differs from loserId, winnerId is in finished,     *)
(* loserId is not in finished, and loserId names a player of the game      *)
(* whose PlayerState still holds at least one card.                        *)
C32_WinnerAndLoser ==
  \A code \in DOMAIN rooms :
    rooms[code].game # NoGame =>
      IF rooms[code].phase = "ended"
      THEN /\ rooms[code].game.winnerId # Null
           /\ rooms[code].game.loserId # Null
           /\ rooms[code].game.winnerId # rooms[code].game.loserId
           /\ rooms[code].game.winnerId \in Range(rooms[code].game.finished)
           /\ rooms[code].game.loserId \notin Range(rooms[code].game.finished)
           /\ rooms[code].game.loserId \in DOMAIN rooms[code].game.playersState
           /\ ~isPlayerOut(rooms[code].game.playersState[rooms[code].game.loserId])
      ELSE /\ rooms[code].game.winnerId = Null
           /\ rooms[code].game.loserId = Null

====
